---- MODULE Spec2Model ----
(***************************************************************************)
(* Model of the CSP timetable solver of admin_modules/auto_scheduler.py:   *)
(* the compatibility oracle, the domain builder, AC-3, backtracking with   *)
(* forward checking and the generate_schedule request handler.             *)
(*                                                                         *)
(* Representation:                                                         *)
(*   - a time string "HH:MM" is the pair <<h, m>>;                         *)
(*   - a session is a record with the keys of the session dict;            *)
(*   - a group is a sequence of sessions, a domain a sequence of groups;   *)
(*   - a dict is a function; dicts whose iteration order matters carry     *)
(*     their key order in a separate sequence (keys);                      *)
(*   - Python None, where a value may be None, is the empty sequence and   *)
(*     a present value v is <<v>>; an id that is None or 0 is 0.           *)
(***************************************************************************)
EXTENDS Integers, Sequences, FiniteSets, Bags, TLC

VARIABLES
    pc,                    \* position of the running request / call
    form,                  \* request.form and session role of the request
    db,                    \* tables subjects, instructors, rooms, room_programs
    schedules,             \* table schedules: a bag of rows
    outcome,               \* the message flashed by the request, "" before
    approved_schedules,    \* local of generate_schedule
    time_slots,            \* local of generate_schedule
    subjects,              \* local of generate_schedule
    lecture_rooms,         \* local of generate_schedule
    lab_rooms,             \* local of generate_schedule
    room_programs_map,     \* local of generate_schedule
    futures,               \* build task of each subject: its state and result
    completed,             \* the finished futures as as_completed yields them
    queue,                 \* worklist of ac3
    revisions,             \* revision counter of ac3
    keys,                  \* iteration order of the dict `domains`
    domains,               \* domains: var name -> list of groups
    assignment,            \* assignment: var name -> group
    instructor_load,       \* instructor_load: instructor id -> int
    max_loads,             \* max_loads: instructor id -> int
    _instructor_status,    \* module global _instructor_status
    _compatibility_cache,  \* module global _compatibility_cache
    _backtrack_cache,      \* module global _backtrack_cache
    stack,                 \* call stack of backtrack (one frame per call)
    ret,                   \* value returned by the last finished call
    domains0,              \* the domains backtrack was first called with
    args,                  \* arguments of a direct call of a helper
    returned,              \* what that call returned, <<>> before
    suspended              \* locals of the request of a second thread that
                           \* does not run now, <<>> when there is none

\* the request and the database
requestVars == <<form, db, schedules, outcome>>

\* what generate_schedule reads before the build
loadedVars == <<approved_schedules, time_slots, subjects, lecture_rooms,
                lab_rooms, room_programs_map>>

buildVars == <<futures, completed>>

ac3Vars == <<queue, revisions>>

\* what no step of a request touches
callVars == <<args, returned, suspended>>

vars == <<pc, form, db, schedules, outcome, approved_schedules, time_slots,
          subjects, lecture_rooms, lab_rooms, room_programs_map, futures,
          completed, queue, revisions, keys, domains, assignment,
          instructor_load, max_loads, _instructor_status,
          _compatibility_cache, _backtrack_cache, stack, ret, domains0,
          args, returned, suspended>>

----------------------------------------------------------------------------
(* Bounds of the model *)

\* longest domain list handed to backtrack
MaxDom == 2

(* Program constants *)

\* backtrack sorts a copy instead of in place above this domain length
SortCopyThreshold == 100

\* session lengths and step of _generate_time_slots_list, in minutes
SlotLengthShort == 60

SlotLengthLong == 90

SlotStep == 30

\* duration bounds of a lecture (45-70) and of a lab (75-110) slot
LectureMinDuration == 45

LectureMaxDuration == 70

LabMinDuration == 75

LabMaxDuration == 110

\* lecture and lab candidates combined (first 50) and kept as fallback (20)
CombineCap == 50

FallbackCap == 20

\* a domain above this length is sampled down to it
DomainCap == 100

\* TIME_RANGES
lunch_start == <<12, 0>>

lunch_end == <<13, 0>>

workday_start == <<8, 0>>

workday_end == <<17, 0>>

----------------------------------------------------------------------------
(* Dict helpers *)

Put(d, k, v) == (k :> v) @@ d

Del(d, k) == [x \in DOMAIN d \ {k} |-> d[x]]

Get(d, k, default) == IF k \in DOMAIN d THEN d[k] ELSE default

None == <<>>

Range(seq) == {seq[i] : i \in 1..Len(seq)}

Max(a, b) == IF a >= b THEN a ELSE b

Min(a, b) == IF a <= b THEN a ELSE b

Some(v) == <<v>>

\* the sequences without repetition over S, of length 1..n
RECURSIVE SeqsNoDup(_, _)
SeqsNoDup(S, n) ==
    IF n = 0 \/ S = {} THEN {<<>>}
    ELSE {<<>>} \cup
         UNION {{<<x>> \o t : t \in SeqsNoDup(S \ {x}, n - 1)} : x \in S}

----------------------------------------------------------------------------
(* Time *)

time_to_minutes(t) == t[1] * 60 + t[2]

strftime_short(mins) == <<mins \div 60, mins % 60>>

\* _intervals_overlap_cached with touching intervals counted as overlapping
_intervals_overlap_cached_Closed(s1, e1, s2, e2) ==
    ~(time_to_minutes(e1) < time_to_minutes(s2)
        \/ time_to_minutes(e2) < time_to_minutes(s1))

_intervals_overlap_cached(s1, e1, s2, e2) ==
    LET start1 == time_to_minutes(s1)
        end1 == time_to_minutes(e1)
        start2 == time_to_minutes(s2)
        end2 == time_to_minutes(e2)
    IN ~(end1 <= start2 \/ end2 <= start1)

intervals_overlap(s1, e1, s2, e2) == _intervals_overlap_cached(s1, e1, s2, e2)

----------------------------------------------------------------------------
(* Compatibility oracle *)

\* a hash of the sessions that leaves the room out, so that two groups in
\* different rooms have one hash value
hash_NoRoom(t) ==
    [i \in 1..Len(t) |-> <<t[i][1], t[i][2], t[i][4], t[i][5], t[i][6]>>]

\* hash() of a sessions_data tuple; distinct tuples of the model's universe
\* have distinct hash values
hash(t) == t

GroupKey(group) ==
    LET sessions_data ==
            [i \in 1..Len(group) |->
                <<group[i].subject_id, group[i].instructor_id,
                  group[i].room_id, group[i].day_of_week,
                  group[i].start_time, group[i].end_time>>]
    IN [sessions_data |-> sessions_data, hash_val |-> hash(sessions_data)]

\* SessionsConflict without the shared-room test
SessionsConflict_NoRoom(a, b) ==
    \/ /\ a[1] = b[1] /\ a[1] # 0
       /\ (a[2] # b[2] \/ a[3] # b[3] \/ a[4] = b[4])
    \/ /\ a[4] = b[4] /\ a[4] # "" /\ b[4] # ""
       /\ _intervals_overlap_cached(a[5], a[6], b[5], b[6])
       /\ a[2] = b[2] /\ a[2] # 0

\* one (a, b) iteration of _groups_compatible_fast: TRUE when it returns False
SessionsConflict(a, b) ==
    \/ /\ a[1] = b[1] /\ a[1] # 0
       /\ (a[2] # b[2] \/ a[3] # b[3] \/ a[4] = b[4])
    \/ /\ a[4] = b[4] /\ a[4] # "" /\ b[4] # ""
       /\ _intervals_overlap_cached(a[5], a[6], b[5], b[6])
       /\ ((a[2] = b[2] /\ a[2] # 0) \/ (a[3] = b[3] /\ a[3] # 0))

\* _groups_compatible_fast that only looks at the first session of each group
_groups_compatible_fast_FirstPair(sessions_a, sessions_b) ==
    ~SessionsConflict(sessions_a[1], sessions_b[1])

_groups_compatible_fast(sessions_a, sessions_b) ==
    \A i \in 1..Len(sessions_a) : \A j \in 1..Len(sessions_b) :
        ~SessionsConflict(sessions_a[i], sessions_b[j])

\* CachedCompatible with the cache keyed by the first group alone
CachedCompatible_KeyA(cache, group_a, group_b) ==
    LET cache_key == <<GroupKey(group_a).hash_val, GroupKey(group_a).hash_val>>
    IN IF cache_key \in DOMAIN cache
       THEN [result |-> cache[cache_key], cache |-> cache]
       ELSE IF group_a = <<>> \/ group_b = <<>>
            THEN [result |-> TRUE, cache |-> cache]
            ELSE LET r == _groups_compatible_fast(GroupKey(group_a).sessions_data,
                                                  GroupKey(group_b).sessions_data)
                 IN [result |-> r, cache |-> Put(cache, cache_key, r)]

\* the cache lookup followed by groups_compatible on a miss, as written in
\* revise_fast and forward_check; result and the cache afterwards
CachedCompatible(cache, group_a, group_b) ==
    LET cache_key == <<GroupKey(group_a).hash_val, GroupKey(group_b).hash_val>>
    IN IF cache_key \in DOMAIN cache
       THEN [result |-> cache[cache_key], cache |-> cache]
       ELSE IF group_a = <<>> \/ group_b = <<>>
            THEN [result |-> TRUE, cache |-> cache]
            ELSE LET r == _groups_compatible_fast(GroupKey(group_a).sessions_data,
                                                  GroupKey(group_b).sessions_data)
                 IN [result |-> r, cache |-> Put(cache, cache_key, r)]

groups_compatible(cache, group_a, group_b) ==
    IF group_a = <<>> \/ group_b = <<>>
    THEN [result |-> TRUE, cache |-> cache]
    ELSE CachedCompatible(cache, group_a, group_b)

----------------------------------------------------------------------------
(* Forward checking *)

\* the filter loop of forward_check over one domain: every group is looked
\* up (or computed and cached) in turn
RECURSIVE FilterCompatible(_, _, _, _, _)
FilterCompatible(cache, value, groups, i, filtered) ==
    IF i > Len(groups) THEN [filtered |-> filtered, cache |-> cache]
    ELSE LET c == CachedCompatible(cache, value, groups[i])
         IN FilterCompatible(c.cache, value, groups, i + 1,
                IF c.result THEN Append(filtered, groups[i]) ELSE filtered)

\* the restore of the backed-up domains that restores nothing
Restore_None(doms, backup) == doms

Restore(doms, backup) ==
    [k \in DOMAIN doms |-> IF k \in DOMAIN backup THEN backup[k] ELSE doms[k]]

\* the loop of forward_check that backs up every domain it has filtered,
\* shrunk or not
RECURSIVE ForwardCheckLoop_BackupAll(_, _, _, _, _, _, _, _)
ForwardCheckLoop_BackupAll(ks, asg, var, value, i, doms, backup, cache) ==
    IF i > Len(ks)
    THEN [ok |-> TRUE, domains |-> doms, backup |-> backup, cache |-> cache]
    ELSE IF ks[i] \in DOMAIN asg \/ ks[i] = var
    THEN ForwardCheckLoop_BackupAll(ks, asg, var, value, i + 1, doms,
                                    backup, cache)
    ELSE LET f == FilterCompatible(cache, value, doms[ks[i]], 1, <<>>)
         IN IF f.filtered = <<>>
            THEN [ok |-> FALSE, domains |-> Restore(doms, backup),
                  backup |-> <<>>, cache |-> f.cache]
            ELSE ForwardCheckLoop_BackupAll(ks, asg, var, value, i + 1,
                     Put(doms, ks[i], f.filtered),
                     Put(backup, ks[i], doms[ks[i]]), f.cache)

RECURSIVE ForwardCheckLoop(_, _, _, _, _, _, _, _)
ForwardCheckLoop(ks, asg, var, value, i, doms, backup, cache) ==
    IF i > Len(ks)
    THEN [ok |-> TRUE, domains |-> doms, backup |-> backup, cache |-> cache]
    ELSE IF ks[i] \in DOMAIN asg \/ ks[i] = var
    THEN ForwardCheckLoop(ks, asg, var, value, i + 1, doms, backup, cache)
    ELSE LET f == FilterCompatible(cache, value, doms[ks[i]], 1, <<>>)
         IN IF f.filtered = <<>>
            THEN [ok |-> FALSE, domains |-> Restore(doms, backup),
                  backup |-> <<>>, cache |-> f.cache]
            ELSE IF Len(f.filtered) < Len(doms[ks[i]])
            THEN ForwardCheckLoop(ks, asg, var, value, i + 1,
                     Put(doms, ks[i], f.filtered),
                     Put(backup, ks[i], doms[ks[i]]), f.cache)
            ELSE ForwardCheckLoop(ks, asg, var, value, i + 1,
                     doms, backup, f.cache)

\* forward_check that filters nothing and always succeeds
forward_check_NoFilter(ks, asg, doms, var, value, cache) ==
    [ok |-> TRUE, domains |-> doms, backup |-> <<>>, cache |-> cache]

\* ok = FALSE is the return value False, otherwise backup is the return value
forward_check(ks, asg, doms, var, value, cache) ==
    ForwardCheckLoop(ks, asg, var, value, 1, doms, <<>>, cache)

----------------------------------------------------------------------------
(* Consistency of a candidate with the partial assignment *)

Days(group) == {group[i].day_of_week : i \in 1..Len(group)}

\* the loop over assignment.values(): stops at the first incompatible group
RECURSIVE ConsistentLoop(_, _, _, _, _)
ConsistentLoop(order, asg, candidate_group, i, cache) ==
    IF i > Len(order) THEN [result |-> TRUE, cache |-> cache]
    ELSE LET c == groups_compatible(cache, candidate_group, asg[order[i]])
         IN IF ~c.result THEN [result |-> FALSE, cache |-> c.cache]
            ELSE ConsistentLoop(order, asg, candidate_group, i + 1, c.cache)

\* SingleDayPartTime without the days of the candidate
SingleDayPartTime_AssignedOnly(status, asg, candidate_group) ==
    LET instr == candidate_group[1].instructor_id
        assigned_days ==
            UNION {Days(asg[k]) : k \in {x \in DOMAIN asg :
                                          asg[x][1].instructor_id = instr}}
    IN /\ Get(status, instr, "") = "part time"
       /\ Cardinality(assigned_days) = 1

\* the part-time rule of is_consistent_assignment: TRUE when it returns False
SingleDayPartTime(status, asg, candidate_group) ==
    LET instr == candidate_group[1].instructor_id
        assigned_days ==
            UNION {Days(asg[k]) : k \in {x \in DOMAIN asg :
                                          asg[x][1].instructor_id = instr}}
        all_days == assigned_days \cup Days(candidate_group)
    IN /\ Get(status, instr, "") = "part time"
       /\ Cardinality(all_days) = 1

\* is_consistent_assignment without the part-time rule
is_consistent_assignment_NoSpread(order, asg, candidate_group, cache, status) ==
    ConsistentLoop(order, asg, candidate_group, 1, cache)

\* order is the insertion order of the assignment dict
is_consistent_assignment(order, asg, candidate_group, cache, status) ==
    LET c == ConsistentLoop(order, asg, candidate_group, 1, cache)
    IN IF ~c.result THEN c
       ELSE [result |-> ~SingleDayPartTime(status, asg, candidate_group),
             cache |-> c.cache]

----------------------------------------------------------------------------
(* Variable and value ordering *)

Unassigned(ks, asg) == SelectSeq(ks, LAMBDA v : v \notin DOMAIN asg)

\* min(unassigned, key=len(domains[v])): the first variable of least domain
select_unassigned_variable(ks, doms, asg) ==
    LET unassigned == Unassigned(ks, asg)
        i == CHOOSE i \in 1..Len(unassigned) :
                /\ \A j \in 1..Len(unassigned) :
                      Len(doms[unassigned[i]]) <= Len(doms[unassigned[j]])
                /\ \A j \in 1..(i - 1) :
                      Len(doms[unassigned[j]]) > Len(doms[unassigned[i]])
    IN unassigned[i]

\* list.sort(key=len) and sorted(key=len): stable, ascending group size
RECURSIVE SortByLen(_)
SortByLen(groups) ==
    IF groups = <<>> THEN <<>>
    ELSE LET n == Len(groups)
             g == groups[n]
             sorted == SortByLen(SubSeq(groups, 1, n - 1))
             k == Cardinality({j \in 1..Len(sorted) : Len(sorted[j]) <= Len(g)})
         IN SubSeq(sorted, 1, k) \o <<g>> \o SubSeq(sorted, k + 1, Len(sorted))

\* state_sig of backtrack
StateSig(asg, doms, load) ==
    <<DOMAIN asg,
      {<<k, Len(doms[k])>> : k \in DOMAIN doms \ DOMAIN asg},
      {<<i, load[i]>> : i \in DOMAIN load}>>

\* Python truth value of a backtrack result (None and {} are false)
Truthy(r) == r # None /\ DOMAIN r[1] # {}

----------------------------------------------------------------------------
(* Backtracking search: one frame of `stack` per active call of backtrack *)

\* IsComplete one variable early
IsComplete_OneShort(asg, doms) ==
    Cardinality(DOMAIN asg) + 1 >= Cardinality(DOMAIN doms)

\* len(assignment) == len(domains)
IsComplete(asg, doms) == Cardinality(DOMAIN asg) = Cardinality(DOMAIN doms)

\* ExceedsLoad without the sessions of the candidate
ExceedsLoad_CurrentOnly(current_load, sessions_needed, loads, instr) ==
    current_load > Get(loads, instr, 0)

\* current_load + sessions_needed > max_loads.get(instr, 0)
ExceedsLoad(current_load, sessions_needed, loads, instr) ==
    current_load + sessions_needed > Get(loads, instr, 0)

Top == stack[Len(stack)]

SetTop(f) == [stack EXCEPT ![Len(stack)] = f]

Pop == SubSeq(stack, 1, Len(stack) - 1)

\* insertion order of the assignment dict: the variables of the suspended calls
AssignedOrder == [i \in 1..(Len(stack) - 1) |-> stack[i].var]

\* backtrack without the lookup of lines 498-499
BtCall_NoLookup ==
    /\ pc = "bt_call"
    /\ UNCHANGED callVars
    /\ UNCHANGED <<requestVars, loadedVars, buildVars, ac3Vars>>
    /\ UNCHANGED <<keys, assignment, instructor_load, max_loads,
                   _instructor_status, _compatibility_cache,
                   _backtrack_cache, domains0>>
    /\ IF IsComplete(assignment, domains)
       THEN /\ ret' = Some(assignment)
            /\ pc' = "bt_return"
            /\ UNCHANGED <<domains, stack>>
       ELSE LET state_sig == StateSig(assignment, domains, instructor_load)
                var == select_unassigned_variable(keys, domains, assignment)
                domain_vals == SortByLen(domains[var])
            IN /\ domains' = IF Len(domains[var]) > SortCopyThreshold
                             THEN domains
                             ELSE Put(domains, var, domain_vals)
               /\ stack' = Append(stack,
                      [sig |-> state_sig, var |-> var,
                       vals |-> domain_vals, i |-> 1, instr |-> 0,
                       current_load |-> 0, backup |-> <<>>])
               /\ pc' = "bt_loop"
               /\ ret' = ret

\* entry of backtrack up to the candidate loop (lines 489-509)
BtCall ==
    /\ pc = "bt_call"
    /\ UNCHANGED callVars
    /\ UNCHANGED <<requestVars, loadedVars, buildVars, ac3Vars>>
    /\ UNCHANGED <<keys, assignment, instructor_load, max_loads,
                   _instructor_status, _compatibility_cache,
                   _backtrack_cache, domains0>>
    /\ IF IsComplete(assignment, domains)
       THEN /\ ret' = Some(assignment)
            /\ pc' = "bt_return"
            /\ UNCHANGED <<domains, stack>>
       ELSE LET state_sig == StateSig(assignment, domains, instructor_load)
            IN IF state_sig \in DOMAIN _backtrack_cache
               THEN /\ ret' = _backtrack_cache[state_sig]
                    /\ pc' = "bt_return"
                    /\ UNCHANGED <<domains, stack>>
               ELSE LET var == select_unassigned_variable(keys, domains,
                                                          assignment)
                        domain_vals == SortByLen(domains[var])
                    IN /\ domains' = IF Len(domains[var]) > SortCopyThreshold
                                     THEN domains
                                     ELSE Put(domains, var, domain_vals)
                       /\ stack' = Append(stack,
                              [sig |-> state_sig, var |-> var,
                               vals |-> domain_vals, i |-> 1, instr |-> 0,
                               current_load |-> 0, backup |-> <<>>])
                       /\ pc' = "bt_loop"
                       /\ ret' = ret

\* one iteration of the candidate loop up to the recursive call (511-533)
BtTry ==
    /\ pc = "bt_loop"
    /\ UNCHANGED callVars
    /\ UNCHANGED <<requestVars, loadedVars, buildVars, ac3Vars>>
    /\ Top.i <= Len(Top.vals)
    /\ UNCHANGED <<keys, max_loads, _instructor_status, _backtrack_cache,
                   ret, domains0>>
    /\ LET f == Top
           group == f.vals[f.i]
           instr == IF group = <<>> THEN 0 ELSE group[1].instructor_id
           sessions_needed == Len(group)
           current_load == Get(instructor_load, instr, 0)
           next == SetTop([f EXCEPT !.i = f.i + 1])
       IN IF \/ group = <<>>
             \/ instr = 0
             \/ ExceedsLoad(current_load, sessions_needed, max_loads, instr)
          THEN /\ stack' = next
               /\ UNCHANGED <<pc, domains, assignment, instructor_load,
                              _compatibility_cache>>
          ELSE LET c == is_consistent_assignment(AssignedOrder, assignment,
                            group, _compatibility_cache, _instructor_status)
               IN IF ~c.result
                  THEN /\ stack' = next
                       /\ _compatibility_cache' = c.cache
                       /\ UNCHANGED <<pc, domains, assignment,
                                      instructor_load>>
                  ELSE LET asg1 == Put(assignment, f.var, group)
                           fc == forward_check(keys, asg1, domains, f.var,
                                               group, c.cache)
                       IN /\ _compatibility_cache' = fc.cache
                          /\ domains' = fc.domains
                          /\ IF fc.ok
                             THEN /\ assignment' = asg1
                                  /\ instructor_load' =
                                        Put(instructor_load, instr,
                                            current_load + sessions_needed)
                                  /\ stack' = SetTop([f EXCEPT
                                        !.instr = instr,
                                        !.current_load = current_load,
                                        !.backup = fc.backup])
                                  /\ pc' = "bt_call"
                             ELSE /\ assignment' = assignment
                                  /\ instructor_load' =
                                        Put(instructor_load, instr,
                                            current_load)
                                  /\ stack' = next
                                  /\ pc' = pc

\* the candidate loop is exhausted (544-545)
BtExhaust ==
    /\ pc = "bt_loop"
    /\ UNCHANGED callVars
    /\ UNCHANGED <<requestVars, loadedVars, buildVars, ac3Vars>>
    /\ Top.i > Len(Top.vals)
    /\ _backtrack_cache' = Put(_backtrack_cache, Top.sig, None)
    /\ stack' = Pop
    /\ ret' = None
    /\ pc' = "bt_return"
    /\ UNCHANGED <<keys, domains, assignment, instructor_load, max_loads,
                   _instructor_status, _compatibility_cache, domains0>>

\* BtReturn that leaves instructor_load as the failed branch set it
BtReturn_NoRestore ==
    /\ pc = "bt_return"
    /\ UNCHANGED callVars
    /\ UNCHANGED <<requestVars, loadedVars, buildVars, ac3Vars>>
    /\ stack # <<>>
    /\ UNCHANGED <<keys, max_loads, _instructor_status,
                   _compatibility_cache, ret, domains0>>
    /\ IF Truthy(ret)
       THEN /\ _backtrack_cache' = Put(_backtrack_cache, Top.sig, ret)
            /\ stack' = Pop
            /\ UNCHANGED <<pc, domains, assignment, instructor_load>>
       ELSE /\ assignment' = Del(assignment, Top.var)
            /\ instructor_load' = instructor_load
            /\ domains' = Restore(domains, Top.backup)
            /\ stack' = SetTop([Top EXCEPT !.i = Top.i + 1])
            /\ pc' = "bt_loop"
            /\ UNCHANGED _backtrack_cache

\* a recursive call has returned into the loop of its caller (533-542)
BtReturn ==
    /\ pc = "bt_return"
    /\ UNCHANGED callVars
    /\ UNCHANGED <<requestVars, loadedVars, buildVars, ac3Vars>>
    /\ stack # <<>>
    /\ UNCHANGED <<keys, max_loads, _instructor_status,
                   _compatibility_cache, ret, domains0>>
    /\ IF Truthy(ret)
       THEN /\ _backtrack_cache' = Put(_backtrack_cache, Top.sig, ret)
            /\ stack' = Pop
            /\ UNCHANGED <<pc, domains, assignment, instructor_load>>
       ELSE /\ assignment' = Del(assignment, Top.var)
            /\ instructor_load' = Put(instructor_load, Top.instr,
                                      Top.current_load)
            /\ domains' = Restore(domains, Top.backup)
            /\ stack' = SetTop([Top EXCEPT !.i = Top.i + 1])
            /\ pc' = "bt_loop"
            /\ UNCHANGED _backtrack_cache

----------------------------------------------------------------------------
(* Sessions and groups as the domain builder makes them *)

MWF == <<"Monday", "Wednesday", "Friday">>

TTh == <<"Tuesday", "Thursday">>

OneDay == <<"Monday">>

\* the session dict built for one pattern day
Session(sid, instr_id, room, day, start, end) ==
    [subject_id |-> sid, instructor_id |-> instr_id,
     room_id |-> room.room_id, room_type |-> room.room_type,
     day_of_week |-> day, start_time |-> start, end_time |-> end]

\* one session per pattern day, same room and slot
PatternGroup(sid, instr_id, room, days, start, end) ==
    [i \in 1..Len(days) |-> Session(sid, instr_id, room, days[i], start, end)]

----------------------------------------------------------------------------
(* Time slot generator *)

\* generate_time_slots_fixed that breaks at a slot ending at end_time too
generate_time_slots_fixed_Strict(start_time_dt, end_time_dt, session_length_minutes, step_minutes) ==
    LET total_minutes == end_time_dt - start_time_dt
        n_slots == total_minutes \div step_minutes
        fits(i) == start_time_dt + i * step_minutes + session_length_minutes
                       < end_time_dt
        n == Cardinality({i \in 0..(n_slots - 1) :
                            \A j \in 0..i : fits(j)})
    IN [k \in 1..n |->
          <<strftime_short(start_time_dt + (k - 1) * step_minutes),
            strftime_short(start_time_dt + (k - 1) * step_minutes
                             + session_length_minutes)>>]

\* range(n_slots) up to the break at the first slot that ends after end_time
generate_time_slots_fixed(start_time_dt, end_time_dt, session_length_minutes, step_minutes) ==
    LET total_minutes == end_time_dt - start_time_dt
        n_slots == total_minutes \div step_minutes
        fits(i) == start_time_dt + i * step_minutes + session_length_minutes
                       <= end_time_dt
        n == Cardinality({i \in 0..(n_slots - 1) :
                            \A j \in 0..i : fits(j)})
    IN [k \in 1..n |->
          <<strftime_short(start_time_dt + (k - 1) * step_minutes),
            strftime_short(start_time_dt + (k - 1) * step_minutes
                             + session_length_minutes)>>]

\* keeps the first occurrence of every element
RECURSIVE Dedup(_)
Dedup(seq) ==
    IF seq = <<>> THEN <<>>
    ELSE LET front == Dedup(SubSeq(seq, 1, Len(seq) - 1))
             last == seq[Len(seq)]
         IN IF \E i \in 1..Len(front) : front[i] = last
            THEN front ELSE Append(front, last)

\* start_time, end_time: minutes since midnight of the parsed form fields
_generate_time_slots_list(start_time, end_time) ==
    Dedup(generate_time_slots_fixed(start_time, end_time, SlotLengthShort,
                                    SlotStep)
          \o generate_time_slots_fixed(start_time, end_time, SlotLengthLong,
                                       SlotStep))

----------------------------------------------------------------------------
(* Domain builder *)

\* str.strip().upper() on the program names of the model
StripUpper(str) ==
    CASE str = "bsit" -> "BSIT"
      [] str = " BSIT " -> "BSIT"
      [] str = "bscs" -> "BSCS"
      [] OTHER -> str

\* str.lower() on the course types and instructor statuses of the model
Lower(str) ==
    CASE str = "Major" -> "major"
      [] str = "Non-Major" -> "non-major"
      [] str = "Permanent" -> "permanent"
      [] str = "Part Time" -> "part time"
      [] OTHER -> str

\* the test of conflicts_with_approved_schedule on the first row only
conflicts_with_approved_schedule_FirstRow(candidate_session, approved_rows) ==
    \E k \in 1..Min(1, Len(approved_rows)) :
        LET approved == approved_rows[k]
        IN \/ /\ approved.instructor_id = candidate_session.instructor_id
              /\ approved.day_of_week = candidate_session.day_of_week
              /\ intervals_overlap(approved.start_time, approved.end_time,
                                   candidate_session.start_time,
                                   candidate_session.end_time)
           \/ /\ approved.room_id = candidate_session.room_id
              /\ approved.day_of_week = candidate_session.day_of_week
              /\ intervals_overlap(approved.start_time, approved.end_time,
                                   candidate_session.start_time,
                                   candidate_session.end_time)

\* conflicts_with_approved_schedule without the same-room test
conflicts_with_approved_schedule_InstructorOnly(candidate_session, approved_rows) ==
    \E k \in 1..Len(approved_rows) :
        LET approved == approved_rows[k]
        IN /\ approved.instructor_id = candidate_session.instructor_id
           /\ approved.day_of_week = candidate_session.day_of_week
           /\ intervals_overlap(approved.start_time, approved.end_time,
                                candidate_session.start_time,
                                candidate_session.end_time)

conflicts_with_approved_schedule(candidate_session, approved_rows) ==
    \E k \in 1..Len(approved_rows) :
        LET approved == approved_rows[k]
        IN \/ /\ approved.instructor_id = candidate_session.instructor_id
              /\ approved.day_of_week = candidate_session.day_of_week
              /\ intervals_overlap(approved.start_time, approved.end_time,
                                   candidate_session.start_time,
                                   candidate_session.end_time)
           \/ /\ approved.room_id = candidate_session.room_id
              /\ approved.day_of_week = candidate_session.day_of_week
              /\ intervals_overlap(approved.start_time, approved.end_time,
                                   candidate_session.start_time,
                                   candidate_session.end_time)

\* RoomAllowed with the program restriction ignored
RoomAllowed_Any(room, programs_map, subj_program) == TRUE

\* not (allowed_programs and subj_program not in allowed_programs)
RoomAllowed(room, programs_map, subj_program) ==
    LET allowed_programs == Get(programs_map, room.room_id, <<>>)
    IN allowed_programs = <<>> \/ subj_program \in Range(allowed_programs)

\* SlotAllowed with the workday test on the start of the slot only
SlotAllowed_StartOnly(slot, min_dur, max_dur, status) ==
    LET duration == time_to_minutes(slot[2]) - time_to_minutes(slot[1])
    IN /\ min_dur <= duration /\ duration <= max_dur
       /\ status = "permanent" =>
            /\ ~intervals_overlap(slot[1], slot[2], lunch_start, lunch_end)
            /\ ~(time_to_minutes(slot[1]) < time_to_minutes(workday_start))

\* the duration test and, for a permanent instructor, lunch and workday
SlotAllowed(slot, min_dur, max_dur, status) ==
    LET duration == time_to_minutes(slot[2]) - time_to_minutes(slot[1])
    IN /\ min_dur <= duration /\ duration <= max_dur
       /\ status = "permanent" =>
            /\ ~intervals_overlap(slot[1], slot[2], lunch_start, lunch_end)
            /\ ~(\/ time_to_minutes(slot[1]) < time_to_minutes(workday_start)
                 \/ time_to_minutes(slot[2]) > time_to_minutes(workday_end))

\* the sessions of the pattern days that do not conflict with an approved one
BuildGroup(sid, instr_id, room, days, slot, approved_rows) ==
    SelectSeq(PatternGroup(sid, instr_id, room, days, slot[1], slot[2]),
              LAMBDA session :
                  ~conflicts_with_approved_schedule(session, approved_rows))

\* PatternCandidates that also keeps the groups that lost a day to an
\* approved schedule
PatternCandidates_Partial(sid, instr_id, rooms, days, min_dur, max_dur, slots, programs_map, subj_program, status, approved_rows) ==
    LET n == Len(slots)
        pairs == [k \in 1..(Len(rooms) * n) |->
                     <<rooms[((k - 1) \div n) + 1],
                       slots[((k - 1) % n) + 1]>>]
        kept == SelectSeq(pairs, LAMBDA pr :
                    /\ RoomAllowed(pr[1], programs_map, subj_program)
                    /\ SlotAllowed(pr[2], min_dur, max_dur, status)
                    /\ BuildGroup(sid, instr_id, pr[1], days, pr[2],
                                  approved_rows) # <<>>)
    IN [k \in 1..Len(kept) |->
          BuildGroup(sid, instr_id, kept[k][1], days, kept[k][2],
                     approved_rows)]

\* PatternCandidates without the room-program test
PatternCandidates_NoRoomTest(sid, instr_id, rooms, days, min_dur, max_dur, slots, programs_map, subj_program, status, approved_rows) ==
    LET n == Len(slots)
        pairs == [k \in 1..(Len(rooms) * n) |->
                     <<rooms[((k - 1) \div n) + 1],
                       slots[((k - 1) % n) + 1]>>]
        kept == SelectSeq(pairs, LAMBDA pr :
                    /\ SlotAllowed(pr[2], min_dur, max_dur, status)
                    /\ Len(BuildGroup(sid, instr_id, pr[1], days, pr[2],
                                      approved_rows)) = Len(days))
    IN [k \in 1..Len(kept) |->
          BuildGroup(sid, instr_id, kept[k][1], days, kept[k][2],
                     approved_rows)]

\* the loop `for room ...: for start, end in slots: ...` of one pattern:
\* the complete groups in the order they are appended
PatternCandidates(sid, instr_id, rooms, days, min_dur, max_dur, slots, programs_map, subj_program, status, approved_rows) ==
    LET n == Len(slots)
        pairs == [k \in 1..(Len(rooms) * n) |->
                     <<rooms[((k - 1) \div n) + 1],
                       slots[((k - 1) % n) + 1]>>]
        kept == SelectSeq(pairs, LAMBDA pr :
                    /\ RoomAllowed(pr[1], programs_map, subj_program)
                    /\ SlotAllowed(pr[2], min_dur, max_dur, status)
                    /\ Len(BuildGroup(sid, instr_id, pr[1], days, pr[2],
                                      approved_rows)) = Len(days))
    IN [k \in 1..Len(kept) |->
          BuildGroup(sid, instr_id, kept[k][1], days, kept[k][2],
                     approved_rows)]

_is_valid_combination(lec, lab) ==
    /\ lec[1].instructor_id = lab[1].instructor_id
    /\ \A i \in 1..Len(lec) : \A j \in 1..Len(lab) :
          ~(/\ lec[i].day_of_week = lab[j].day_of_week
            /\ intervals_overlap(lec[i].start_time, lec[i].end_time,
                                 lab[j].start_time, lab[j].end_time))

Prefix(seq, n) == SubSeq(seq, 1, Min(n, Len(seq)))

\* a or b on lists
OrElse(a, b) == IF a # <<>> THEN a ELSE b

\* a or b on strings (None is "")
StrOrElse(a, b) == IF a # "" THEN a ELSE b

\* local_domain of _build_domain_for_subject before it is sampled or
\* shuffled; units is the int of the subject row
BuildCandidates(subj, units, slots, lec_rooms, labo_rooms, programs_map, approved_rows, status) ==
    LET sid == subj.subject_id
        instr_id == subj.instructor_id
        subj_program == StripUpper(subj.course)
        subj_type == Lower(StrOrElse(subj.course_type, "major"))
    IN IF subj_type = "major" /\ units = 3
       THEN LET lecture_candidates ==
                    PatternCandidates(sid, instr_id,
                        OrElse(lec_rooms, labo_rooms), MWF,
                        LectureMinDuration, LectureMaxDuration, slots,
                        programs_map, subj_program, status,
                        approved_rows)
                lab_candidates ==
                    PatternCandidates(sid, instr_id,
                        OrElse(labo_rooms, lec_rooms), TTh,
                        LabMinDuration, LabMaxDuration, slots,
                        programs_map, subj_program, status,
                        approved_rows)
                lecs == Prefix(lecture_candidates, CombineCap)
                labs == Prefix(lab_candidates, CombineCap)
                m == Len(labs)
                combos == [k \in 1..(Len(lecs) * m) |->
                              <<lecs[((k - 1) \div m) + 1],
                                labs[((k - 1) % m) + 1]>>]
                valid == SelectSeq(combos, LAMBDA c :
                              _is_valid_combination(c[1], c[2]))
                combined == [k \in 1..Len(valid) |-> valid[k][1] \o valid[k][2]]
            IN IF combined # <<>> THEN combined
               ELSE Prefix(lecture_candidates, FallbackCap)
                      \o Prefix(lab_candidates, FallbackCap)
       ELSE LET days == IF units >= 3 THEN MWF
                        ELSE IF units = 2 THEN TTh ELSE OneDay
                min_dur == IF units = 2 THEN LabMinDuration
                           ELSE LectureMinDuration
                max_dur == IF units = 2 THEN LabMaxDuration
                           ELSE LectureMaxDuration
            IN PatternCandidates(sid, instr_id, lec_rooms, days,
                   min_dur, max_dur, slots, programs_map,
                   subj_program, status, approved_rows)

\* the lists random.sample(local_domain, 100) or random.shuffle(local_domain)
\* can leave
Shuffled(local_domain) ==
    IF Len(local_domain) > DomainCap
    THEN {d \in SeqsNoDup(Range(local_domain), DomainCap) : Len(d) = DomainCap}
    ELSE {d \in SeqsNoDup(Range(local_domain), Len(local_domain)) :
             Len(d) = Len(local_domain)}

\* the outcomes of _build_domain_for_subject: raised, or the returned
\* pair (var_name, local_domain); subj.units is <<>> for NULL, <<n>> for n
_build_domain_for_subject(subj, slots, lec_rooms, labo_rooms, programs_map, loads, approved_rows, status_map) ==
    IF subj.instructor_id = 0 \/ subj.instructor_id \notin DOMAIN loads
    THEN {[raised |-> FALSE, var_name |-> ToString(subj.subject_id),
           local_domain |-> <<>>]}
    ELSE IF subj.units = <<>>
    THEN {[raised |-> TRUE, var_name |-> "", local_domain |-> <<>>]}
    ELSE {[raised |-> FALSE, var_name |-> ToString(subj.subject_id),
           local_domain |-> d] :
             d \in Shuffled(BuildCandidates(subj, subj.units[1], slots,
                       lec_rooms, labo_rooms, programs_map,
                       approved_rows,
                       Get(status_map, subj.instructor_id, "")))}

----------------------------------------------------------------------------
(* Inputs of the search specification: three subjects, two lecture rooms,  *)
(* two adjacent one-hour slots.  Subjects "1" and "2" share instructor 1,  *)
(* subject "3" has instructor 2.                                           *)

BTKeys == <<"1", "2", "3">>

BTSubjectId == ("1" :> 1) @@ ("2" :> 2) @@ ("3" :> 3)

BTInstructor == ("1" :> 1) @@ ("2" :> 1) @@ ("3" :> 2)

BTRoom == (1 :> [room_id |-> 1, room_type |-> "Lecture"]) @@
          (2 :> [room_id |-> 2, room_type |-> "Lecture"])

BTSlot == ("A" :> <<<<8, 0>>, <<9, 0>>>>) @@ ("B" :> <<<<9, 0>>, <<10, 0>>>>)

\* the (room, slot) pairs left to each subject by room eligibility and the
\* approved schedules
BTEligible ==
    ("1" :> {<<1, "A">>, <<2, "B">>, <<1, "B">>}) @@
    ("2" :> {<<2, "A">>, <<2, "B">>}) @@
    ("3" :> {<<1, "A">>, <<2, "B">>})

\* the weekly pattern of each subject: "1" is MWF, the others MWF or one day
BTPatterns == {("1" :> MWF) @@ ("2" :> p2) @@ ("3" :> p3) :
                  p2 \in {MWF, OneDay}, p3 \in {MWF, OneDay}}

BTCandidates(v, days) ==
    {PatternGroup(BTSubjectId[v], BTInstructor[v], BTRoom[e[1]], days,
                  BTSlot[e[2]][1], BTSlot[e[2]][2]) : e \in BTEligible[v]}

BTDomainLists(v, days) == SeqsNoDup(BTCandidates(v, days), MaxDom) \ {<<>>}

BTDomains(pat) ==
    {("1" :> d1) @@ ("2" :> d2) @@ ("3" :> d3) :
        d1 \in BTDomainLists("1", pat["1"]),
        d2 \in BTDomainLists("2", pat["2"]),
        d3 \in BTDomainLists("3", pat["3"])}

BTMaxLoads == {(1 :> 6) @@ (2 :> 3), (1 :> 3) @@ (2 :> 3), (1 :> 6)}

BTStatus == {(1 :> "") @@ (2 :> ""),
             (1 :> "part time") @@ (2 :> "permanent"),
             (1 :> "") @@ (2 :> "part time")}

\* backtrack({}, domains, {}, max_loads) with the caches cleared
InitBT ==
    /\ args = <<>> /\ returned = <<>> /\ suspended = <<>>
    /\ pc = "bt_call"
    /\ form = <<>> /\ db = <<>> /\ schedules = EmptyBag /\ outcome = ""
    /\ approved_schedules = <<>> /\ time_slots = <<>> /\ subjects = <<>>
    /\ lecture_rooms = <<>> /\ lab_rooms = <<>> /\ room_programs_map = <<>>
    /\ futures = <<>> /\ completed = <<>>
    /\ queue = <<>> /\ revisions = 0
    /\ keys = BTKeys
    /\ \E pat \in BTPatterns : domains \in BTDomains(pat)
    /\ domains0 = domains
    /\ assignment = <<>>
    /\ instructor_load = <<>>
    /\ max_loads \in BTMaxLoads
    /\ _instructor_status \in BTStatus
    /\ _compatibility_cache = <<>>
    /\ _backtrack_cache = <<>>
    /\ stack = <<>>
    /\ ret = None

NextBT == BtCall \/ BtTry \/ BtExhaust \/ BtReturn

SpecBT == InitBT /\ [][NextBT]_vars

\* the outermost call of backtrack has returned
BtReturned == pc = "bt_return" /\ stack = <<>>

----------------------------------------------------------------------------
(* The search of backtrack with the dead-state cache and the compatibility *)
(* cache left out: the same variable and value order, the same rejections, *)
(* every compatibility computed by _groups_compatible_fast.                *)

CompatibleDirect(group_a, group_b) ==
    \/ group_a = <<>>
    \/ group_b = <<>>
    \/ _groups_compatible_fast(GroupKey(group_a).sessions_data,
                               GroupKey(group_b).sessions_data)

\* the domains after forward checking `value`, assigned variables untouched
ForwardCheckDirect(asg, doms, value) ==
    [k \in DOMAIN doms |->
        IF k \in DOMAIN asg THEN doms[k]
        ELSE SelectSeq(doms[k], LAMBDA g : CompatibleDirect(value, g))]

RECURSIVE SearchNoCache(_, _, _, _, _, _)
RECURSIVE TryNoCache(_, _, _, _, _, _, _, _, _)
SearchNoCache(ks, asg, doms, load, loads, status) ==
    IF IsComplete(asg, doms) THEN Some(asg)
    ELSE LET var == select_unassigned_variable(ks, doms, asg)
             vals == SortByLen(doms[var])
         IN TryNoCache(ks, asg, Put(doms, var, vals), load, loads, status,
                       var, vals, 1)

TryNoCache(ks, asg, doms, load, loads, status, var, vals, i) ==
    IF i > Len(vals) THEN None
    ELSE LET group == vals[i]
             instr == IF group = <<>> THEN 0 ELSE group[1].instructor_id
             current_load == Get(load, instr, 0)
             rejected ==
                 \/ group = <<>>
                 \/ instr = 0
                 \/ ExceedsLoad(current_load, Len(group), loads, instr)
                 \/ \E k \in DOMAIN asg : ~CompatibleDirect(group, asg[k])
                 \/ SingleDayPartTime(status, asg, group)
             asg1 == Put(asg, var, group)
             doms1 == ForwardCheckDirect(asg1, doms, group)
             result ==
                 IF \E k \in DOMAIN doms1 : doms1[k] = <<>> THEN None
                 ELSE SearchNoCache(ks, asg1, doms1,
                          Put(load, instr, current_load + Len(group)),
                          loads, status)
         IN IF rejected
            THEN TryNoCache(ks, asg, doms, load, loads, status, var, vals, i + 1)
            ELSE IF Truthy(result) THEN result
            ELSE TryNoCache(ks, asg, doms, Put(load, instr, current_load),
                            loads, status, var, vals, i + 1)

----------------------------------------------------------------------------
(* Vocabulary of the claims about a returned assignment *)

\* the two sessions are on the same day and their times share a minute
SameTime(a, b) ==
    /\ a.day_of_week = b.day_of_week
    /\ Max(time_to_minutes(a.start_time), time_to_minutes(b.start_time))
         < Min(time_to_minutes(a.end_time), time_to_minutes(b.end_time))

RECURSIVE SumLen(_, _)
SumLen(asg, S) ==
    IF S = {} THEN 0
    ELSE LET v == CHOOSE v \in S : TRUE
         IN Len(asg[v]) + SumLen(asg, S \ {v})

\* the variables whose assigned group is taught by instr
TaughtBy(asg, instr) ==
    {v \in DOMAIN asg : \E i \in 1..Len(asg[v]) :
                           asg[v][i].instructor_id = instr}

InstructorsOf(asg) ==
    UNION {{asg[v][i].instructor_id : i \in 1..Len(asg[v])} : v \in DOMAIN asg}

DaysTaught(asg, instr) == UNION {Days(asg[v]) : v \in TaughtBy(asg, instr)}

PartTime(instr) == Get(_instructor_status, instr, "") = "part time"

NoDoubleBooking(asg) ==
    \A v \in DOMAIN asg : \A w \in DOMAIN asg \ {v} :
        \A i \in 1..Len(asg[v]) : \A j \in 1..Len(asg[w]) :
            SameTime(asg[v][i], asg[w][j]) =>
                /\ asg[v][i].room_id # asg[w][j].room_id
                /\ asg[v][i].instructor_id # asg[w][j].instructor_id

WithinLoads(asg) ==
    \A instr \in InstructorsOf(asg) :
        /\ instr \in DOMAIN max_loads
        /\ SumLen(asg, TaughtBy(asg, instr)) <= max_loads[instr]

SpreadOverDays(asg) ==
    \A instr \in InstructorsOf(asg) :
        PartTime(instr) => Cardinality(DaysTaught(asg, instr)) >= 2

----------------------------------------------------------------------------
(* Claims about backtrack, checked under SpecBT *)

\* C1: in every non-null assignment returned by backtrack, two sessions of
\* different assigned groups that fall on the same day at overlapping times
\* share neither the room nor the instructor.
C1_NoDoubleBooking == ret # None => NoDoubleBooking(ret[1])

\* two groups of the returned assignment do meet at the same time
C1_Witness ==
    /\ BtReturned /\ ret # None
    /\ \E v \in DOMAIN ret[1] : \E w \in DOMAIN ret[1] \ {v} :
          SameTime(ret[1][v][1], ret[1][w][1])

\* C2: in every non-null assignment returned by backtrack, each instructor's
\* assigned groups sum to at most max_load_units sessions, and an instructor
\* without a max_loads entry has no group.
C2_WithinLoads == ret # None => WithinLoads(ret[1])

\* an instructor is loaded exactly to the cap by two groups
C2_Witness ==
    /\ BtReturned /\ ret # None
    /\ Cardinality(TaughtBy(ret[1], 1)) = 2
    /\ SumLen(ret[1], TaughtBy(ret[1], 1)) = max_loads[1]

\* C3: every non-null result of backtrack assigns each variable of the
\* domains map one group, taken from the domain the variable had when
\* backtrack was first called.
C3_Total ==
    ret # None =>
        /\ DOMAIN ret[1] = DOMAIN domains0
        /\ \A v \in DOMAIN ret[1] : ret[1][v] \in Range(domains0[v])

\* a total result whose groups are not all the first of their domain
C3_Witness ==
    /\ BtReturned /\ ret # None
    /\ \E v \in DOMAIN ret[1] : ret[1][v] # domains0[v][1]

\* a choice of one group per variable from the initial domains
Choices ==
    {ch \in [DOMAIN domains0 -> UNION {Range(domains0[v]) : v \in DOMAIN domains0}] :
        \A v \in DOMAIN domains0 : ch[v] \in Range(domains0[v])}

ValidChoice(ch) ==
    /\ WithinLoads(ch)
    /\ \A v \in DOMAIN ch : \A w \in DOMAIN ch \ {v} :
          CompatibleDirect(ch[v], ch[w])
    /\ SpreadOverDays(ch)

\* C4: backtrack returns None only when no choice of one group per variable
\* satisfies the load caps, pairwise compatibility and the day spread of
\* part-time instructors.
C4_NoneOnlyIfUnsolvable ==
    (BtReturned /\ ret = None) => ~(\E ch \in Choices : ValidChoice(ch))

\* C5: whenever backtrack returns a cached None for a state signature, the
\* search from the current assignment, domains and loads without the cache
\* finds no solution either.
C5_CachedNoneIsDead ==
    (/\ pc = "bt_call"
     /\ ~IsComplete(assignment, domains)
     /\ StateSig(assignment, domains, instructor_load)
            \in DOMAIN _backtrack_cache
     /\ _backtrack_cache[StateSig(assignment, domains, instructor_load)] = None)
    => SearchNoCache(keys, assignment, domains, instructor_load, max_loads,
                     _instructor_status) = None

\* C6: in every non-null assignment returned by backtrack, every part-time
\* instructor with an assigned group has sessions on at least two days.
C6_PartTimeSpread == ret # None => SpreadOverDays(ret[1])

\* a part-time instructor teaches in the returned assignment
C6_Witness ==
    /\ BtReturned /\ ret # None
    /\ \E instr \in InstructorsOf(ret[1]) : PartTime(instr)

----------------------------------------------------------------------------
(* The domain builder called on one subject: SpecBuild *)

Room(id, type) == [room_id |-> id, room_type |-> type]

Approved(instr_id, room, day, start, end, sid) ==
    [instructor_id |-> instr_id, room_id |-> room, day_of_week |-> day,
     start_time |-> start, end_time |-> end, subject_id |-> sid]

\* subject rows: instructor 9 has no instructors row, units <<>> is NULL,
\* course_type "" is NULL
BuildSubjects ==
    {[subject_id |-> 1, instructor_id |-> i, units |-> u, course |-> c,
      course_type |-> t] :
        i \in {1, 9}, u \in {<<>>, <<1>>, <<2>>, <<3>>},
        c \in {"bsit", "BSCS"}, t \in {"", "Non-Major"}}

BuildLectureRooms ==
    {<<>>, <<Room(1, "Lecture")>>, <<Room(2, "Lecture")>>}

BuildLabRooms == {<<>>, <<Room(3, "Lab")>>}

BuildRoomPrograms ==
    {<<>>, (1 :> <<"BSIT">>) @@ (3 :> <<"BSCS">>), (3 :> <<"BSIT">>)}

BuildApproved ==
    {<<>>,
     <<Approved(1, 9, "Monday", <<8, 0>>, <<8, 30>>, 7)>>,
     <<Approved(5, 1, "Tuesday", <<9, 0>>, <<9, 30>>, 8)>>}

\* the day windows 08:00-09:30, 11:00-12:30, 07:00-08:30, 12:30-14:00 and
\* 16:00-17:30, in minutes
BuildWindows ==
    {<<480, 570>>, <<660, 750>>, <<420, 510>>, <<750, 840>>, <<960, 1050>>}

InitBuild ==
    /\ args = <<>> /\ returned = <<>> /\ suspended = <<>>
    /\ pc = "build_call"
    /\ form = <<>> /\ db = <<>> /\ schedules = EmptyBag /\ outcome = ""
    /\ \E subj \in BuildSubjects : subjects = <<subj>>
    /\ \E w \in BuildWindows : time_slots = _generate_time_slots_list(w[1], w[2])
    /\ lecture_rooms \in BuildLectureRooms
    /\ lab_rooms \in BuildLabRooms
    /\ room_programs_map \in BuildRoomPrograms
    /\ approved_schedules \in BuildApproved
    /\ max_loads = (1 :> 6)
    /\ _instructor_status \in {(1 :> "permanent"), (1 :> "part time")}
    /\ futures = <<>> /\ completed = <<>>
    /\ queue = <<>> /\ revisions = 0
    /\ keys = <<>> /\ domains = <<>> /\ domains0 = <<>>
    /\ assignment = <<>> /\ instructor_load = <<>>
    /\ _compatibility_cache = <<>> /\ _backtrack_cache = <<>>
    /\ stack = <<>> /\ ret = None

\* one call of _build_domain_for_subject; its result is kept in domains
BuildCall ==
    /\ pc = "build_call"
    /\ UNCHANGED callVars
    /\ \E r \in _build_domain_for_subject(subjects[1], time_slots,
                    lecture_rooms, lab_rooms, room_programs_map, max_loads,
                    approved_schedules, _instructor_status) :
          IF r.raised
          THEN pc' = "build_raised" /\ UNCHANGED <<keys, domains>>
          ELSE /\ pc' = "build_return"
               /\ keys' = <<r.var_name>>
               /\ domains' = (r.var_name :> r.local_domain)
    /\ UNCHANGED <<requestVars, loadedVars, buildVars, ac3Vars, assignment,
                   instructor_load, max_loads, _instructor_status,
                   _compatibility_cache, _backtrack_cache, stack, ret,
                   domains0>>

NextBuild == BuildCall

SpecBuild == InitBuild /\ [][NextBuild]_vars

----------------------------------------------------------------------------
(* Claims about the domain builder, checked under SpecBuild *)

\* every session of every group of every domain
DomainSessions ==
    UNION {UNION {Range(domains[v][k]) : k \in 1..Len(domains[v])} :
              v \in DOMAIN domains}

\* C7: no session placed in a domain by the builder falls on the same day
\* at an overlapping time as an approved schedule entry of the same
\* instructor or the same room.
C7_NoApprovedConflict ==
    pc = "build_return" =>
        \A s \in DomainSessions : \A k \in 1..Len(approved_schedules) :
            ~(/\ SameTime(s, approved_schedules[k])
              /\ \/ s.instructor_id = approved_schedules[k].instructor_id
                 \/ s.room_id = approved_schedules[k].room_id)

\* the approved entries removed a candidate and others are left
C7_Witness ==
    /\ pc = "build_return"
    /\ domains[keys[1]] # <<>>
    /\ subjects[1].units # <<>>
    /\ Len(domains[keys[1]]) <
          Len(BuildCandidates(subjects[1], subjects[1].units[1], time_slots,
                  lecture_rooms, lab_rooms, room_programs_map, <<>>,
                  Get(_instructor_status, subjects[1].instructor_id, "")))

\* a major subject of 3 units
IsMajor3(subj) ==
    /\ subj.units = <<3>>
    /\ Lower(StrOrElse(subj.course_type, "major")) = "major"

\* every lab room has a non-empty program list without the subject's program
NoLabRoomAllows(subj) ==
    \A k \in 1..Len(lab_rooms) :
        LET allowed == Get(room_programs_map, lab_rooms[k].room_id, <<>>)
        IN allowed # <<>> /\ StripUpper(subj.course) \notin Range(allowed)

----------------------------------------------------------------------------
(* AC-3 *)

\* domains at least this long are left out of the initial queue
Ac3TrimThreshold == 40

\* max_revisions is this many times the number of variables
Ac3RevisionFactor == 100

\* the arcs (xi, xj), (xj, xi) for i < j in the order ac3 appends them
Ac3Queue(ks, doms, trim_large_domains) ==
    LET n == Len(ks)
        pairs == [k \in 1..(n * n) |-> <<((k - 1) \div n) + 1,
                                         ((k - 1) % n) + 1>>]
        kept == SelectSeq(pairs, LAMBDA p :
                    /\ p[1] < p[2]
                    /\ \/ ~trim_large_domains
                       \/ /\ Len(doms[ks[p[1]]]) < Ac3TrimThreshold
                          /\ Len(doms[ks[p[2]]]) < Ac3TrimThreshold)
    IN [k \in 1..(2 * Len(kept)) |->
          LET p == kept[(k + 1) \div 2]
          IN IF k % 2 = 1 THEN <<ks[p[1]], ks[p[2]]>>
                          ELSE <<ks[p[2]], ks[p[1]]>>]

\* the loop over domain_xj that looks at its first value only
FindCompatible_FirstOnly(cache, val_x, domain_xj, j) ==
    LET c == CachedCompatible(cache, val_x, domain_xj[1])
    IN [found |-> c.result, cache |-> c.cache]

\* the loop of revise_fast over domain_xj for one val_x, up to its break
RECURSIVE FindCompatible(_, _, _, _)
FindCompatible(cache, val_x, domain_xj, j) ==
    IF j > Len(domain_xj) THEN [found |-> FALSE, cache |-> cache]
    ELSE LET c == CachedCompatible(cache, val_x, domain_xj[j])
         IN IF c.result THEN [found |-> TRUE, cache |-> c.cache]
            ELSE FindCompatible(c.cache, val_x, domain_xj, j + 1)

\* the loop of revise_fast over domain_xi
RECURSIVE ReviseLoop(_, _, _, _, _)
ReviseLoop(cache, domain_xi, domain_xj, i, to_remove) ==
    IF i > Len(domain_xi) THEN [to_remove |-> to_remove, cache |-> cache]
    ELSE LET f == FindCompatible(cache, domain_xi[i], domain_xj, 1)
         IN IF f.found
            THEN ReviseLoop(f.cache, domain_xi, domain_xj, i + 1, to_remove)
            ELSE ReviseLoop(f.cache, domain_xi, domain_xj, i + 1,
                            Append(to_remove, domain_xi[i]))

\* revise_fast that stores the filtered list under xj instead of xi
revise_fast_WrongKey(doms, xi, xj, cache) ==
    IF doms[xi] = <<>> \/ doms[xj] = <<>>
    THEN [revised |-> FALSE, domains |-> doms, cache |-> cache]
    ELSE LET r == ReviseLoop(cache, doms[xi], doms[xj], 1, <<>>)
         IN IF r.to_remove # <<>>
            THEN [revised |-> TRUE,
                  domains |-> Put(doms, xj,
                      SelectSeq(doms[xi], LAMBDA val :
                          val \notin Range(r.to_remove))),
                  cache |-> r.cache]
            ELSE [revised |-> FALSE, domains |-> doms, cache |-> r.cache]

\* a revision that reports a change and removes nothing
revise_fast_NoRemoval(doms, xi, xj, cache) ==
    [revised |-> TRUE, domains |-> doms, cache |-> cache]

\* revised is the return value; domains and cache are what the call leaves
revise_fast(doms, xi, xj, cache) ==
    IF doms[xi] = <<>> \/ doms[xj] = <<>>
    THEN [revised |-> FALSE, domains |-> doms, cache |-> cache]
    ELSE LET r == ReviseLoop(cache, doms[xi], doms[xj], 1, <<>>)
         IN IF r.to_remove # <<>>
            THEN [revised |-> TRUE,
                  domains |-> Put(doms, xi,
                      SelectSeq(doms[xi], LAMBDA val :
                          val \notin Range(r.to_remove))),
                  cache |-> r.cache]
            ELSE [revised |-> FALSE, domains |-> doms, cache |-> r.cache]

\* a revision that appends no arc
Requeue_None(ks, xi, xj) == <<>>

\* the arcs (xk, xi) appended after a revision of xi against xj
Requeue(ks, xi, xj) ==
    LET others == SelectSeq(ks, LAMBDA xk : xk # xi /\ xk # xj)
    IN [k \in 1..Len(others) |-> <<others[k], xi>>]

\* entry of ac3 up to its loop (lines 357-372); keys is never empty here
Ac3Start ==
    /\ pc = "ac3_start"
    /\ UNCHANGED callVars
    /\ queue' = Ac3Queue(keys, domains, TRUE)
    /\ revisions' = 0
    /\ pc' = "ac3_loop"
    /\ UNCHANGED <<requestVars, loadedVars, buildVars, keys, domains,
                   assignment, instructor_load, max_loads,
                   _instructor_status, _compatibility_cache,
                   _backtrack_cache, stack, ret, domains0>>

\* Ac3Revise without the test for an emptied domain
Ac3Revise_NoEmptyCheck ==
    /\ pc = "ac3_loop"
    /\ UNCHANGED callVars
    /\ queue # <<>>
    /\ revisions < Len(keys) * Ac3RevisionFactor
    /\ LET xi == Head(queue)[1]
           xj == Head(queue)[2]
           r == revise_fast(domains, xi, xj, _compatibility_cache)
       IN /\ domains' = r.domains
          /\ _compatibility_cache' = r.cache
          /\ IF ~r.revised
             THEN /\ queue' = Tail(queue)
                  /\ UNCHANGED <<revisions, pc, outcome>>
             ELSE /\ revisions' = revisions + 1
                  /\ queue' = Tail(queue) \o Requeue(keys, xi, xj)
                  /\ UNCHANGED <<pc, outcome>>
    /\ UNCHANGED <<form, db, schedules, loadedVars, buildVars, keys,
                   assignment, instructor_load, max_loads,
                   _instructor_status, _backtrack_cache, stack, ret,
                   domains0>>

\* one iteration of the loop of ac3 (374-382); an emptied domain makes ac3
\* return False and generate_schedule flash ac3_failed (1101-1107)
Ac3Revise ==
    /\ pc = "ac3_loop"
    /\ UNCHANGED callVars
    /\ queue # <<>>
    /\ revisions < Len(keys) * Ac3RevisionFactor
    /\ LET xi == Head(queue)[1]
           xj == Head(queue)[2]
           r == revise_fast(domains, xi, xj, _compatibility_cache)
       IN /\ domains' = r.domains
          /\ _compatibility_cache' = r.cache
          /\ IF ~r.revised
             THEN /\ queue' = Tail(queue)
                  /\ UNCHANGED <<revisions, pc, outcome>>
             ELSE /\ revisions' = revisions + 1
                  /\ IF r.domains[xi] = <<>>
                     THEN /\ queue' = Tail(queue)
                          /\ outcome' = "ac3_failed"
                          /\ pc' = "done"
                     ELSE /\ queue' = Tail(queue) \o Requeue(keys, xi, xj)
                          /\ UNCHANGED <<pc, outcome>>
    /\ UNCHANGED <<form, db, schedules, loadedVars, buildVars, keys,
                   assignment, instructor_load, max_loads,
                   _instructor_status, _backtrack_cache, stack, ret,
                   domains0>>

\* ac3 returns True (383); generate_schedule calls
\* backtrack({}, domains, instructor_load, max_loads) (1114)
Ac3Done ==
    /\ pc = "ac3_loop"
    /\ UNCHANGED callVars
    /\ queue = <<>> \/ revisions >= Len(keys) * Ac3RevisionFactor
    /\ pc' = "bt_call"
    /\ assignment' = <<>>
    /\ stack' = <<>>
    /\ ret' = None
    /\ domains0' = domains
    /\ UNCHANGED <<requestVars, loadedVars, buildVars, ac3Vars, keys,
                   domains, instructor_load, max_loads, _instructor_status,
                   _compatibility_cache, _backtrack_cache>>

----------------------------------------------------------------------------
(* The generate request: generate_schedule and what it calls *)

\* datetime.strptime(str, "%H:%M") on the form strings of the model: the
\* minutes since midnight in a one-element sequence, <<>> for ValueError
strptime_short(str) ==
    CASE str = "08:00" -> <<480>>
      [] str = "08:30" -> <<510>>
      [] str = "09:00" -> <<540>>
      [] str = "09:30" -> <<570>>
      [] str = "10:00" -> <<600>>
      [] str = "11:00" -> <<660>>
      [] str = "13:00" -> <<780>>
      [] OTHER -> <<>>

\* flash is the message flashed, "" when the times are returned
_validate_time_inputs(start_time_str, end_time_str, semester, school_year) ==
    LET st == strptime_short(start_time_str)
        en == strptime_short(end_time_str)
        rejected(msg) == [flash |-> msg, start_time |-> None,
                          end_time |-> None]
    IN IF semester = "" \/ school_year = "" THEN rejected("time_required")
       ELSE IF st = <<>> \/ en = <<>> THEN rejected("time_format")
       ELSE IF st[1] >= en[1] THEN rejected("time_invalid")
       ELSE [flash |-> "", start_time |-> st, end_time |-> en]

\* a TIME column value <<h, m, s>> as parse_time_str(str(value)) returns it
parse_time_str(t) == <<t[1], t[2]>>

\* an "HH:MM" string as the TIME column stores it
TimeColumn(t) == <<t[1], t[2], 0>>

\* the rows of the query of get_approved_schedules, times converted
get_approved_schedules(rows, semester, school_year) ==
    {Approved(r.instructor_id, r.room_id, r.day_of_week,
              parse_time_str(r.start_time), parse_time_str(r.end_time),
              r.subject_id) :
        r \in {x \in BagToSet(rows) : /\ x.approved = <<1>>
                                      /\ x.semester = semester
                                      /\ x.school_year = school_year}}

\* the subjects query of _load_data: an instructor is set and no approved
\* schedule row of the term exists; course_type is the joined column
LoadSubjects(table, rows, semester, school_year) ==
    SelectSeq(table, LAMBDA sb :
        /\ sb.instructor_id # 0
        /\ ~\E sc \in BagToSet(rows) :
              /\ sc.subject_id = sb.subject_id
              /\ sc.semester = semester
              /\ sc.school_year = school_year
              /\ sc.approved = <<1>>)

\* room_programs_map.setdefault(rid, []).append(pname) over the rows
RECURSIVE RoomProgramsMap(_)
RoomProgramsMap(room_program_rows) ==
    IF room_program_rows = <<>> THEN <<>>
    ELSE LET n == Len(room_program_rows)
             m == RoomProgramsMap(SubSeq(room_program_rows, 1, n - 1))
             rp == room_program_rows[n]
         IN Put(m, rp.room_id,
                Append(Get(m, rp.room_id, <<>>),
                       StripUpper(rp.program_name)))

\* PrefilterKeep with a group as long as the cap rejected
PrefilterKeep_Strict(g, loads) ==
    LET instr == g[1].instructor_id
    IN instr \in DOMAIN loads /\ Len(g) < loads[instr]

\* the test of the pre-filter loop on one group (1084-1089)
PrefilterKeep(g, loads) ==
    LET instr == g[1].instructor_id
    IN instr \in DOMAIN loads /\ Len(g) <= loads[instr]

\* the sequences that take their i-th element from the i-th set
RECURSIVE SeqProduct(_)
SeqProduct(sets) ==
    IF sets = <<>> THEN {<<>>}
    ELSE {Append(front, last) :
            front \in SeqProduct(SubSeq(sets, 1, Len(sets) - 1)),
            last \in sets[Len(sets)]}

\* the outcomes of the build task of subjects[i]
BuildOutcomes(i) ==
    _build_domain_for_subject(subjects[i], time_slots, lecture_rooms,
        lab_rooms, room_programs_map, max_loads, approved_schedules,
        _instructor_status)

\* int(x) on the variable names of the model
IntOf(var_name) ==
    CHOOSE n \in {sb.subject_id : sb \in Range(db.subjects)} :
        ToString(n) = var_name

\* `if final_assignment:` always true
ShouldSave_Always(final_assignment) == TRUE

\* `if final_assignment:` (1118)
ShouldSave(final_assignment) == Truthy(final_assignment)

\* the table schedules after _save_schedule_to_db has committed; the rows
\* to insert differ pairwise (subject and day)
_save_schedule_to_db(rows, final_assignment, semester, school_year) ==
    LET subject_ids_int == {IntOf(x) : x \in DOMAIN final_assignment}
        deleted(r) == /\ r.subject_id \in subject_ids_int
                      /\ r.semester = semester
                      /\ r.school_year = school_year
                      /\ r.approved \in {<<>>, <<0>>}
        kept == [r \in {x \in DOMAIN rows : ~deleted(x)} |-> rows[r]]
        insert_data ==
            {[subject_id |-> s.subject_id,
              instructor_id |-> s.instructor_id,
              room_id |-> s.room_id,
              day_of_week |-> s.day_of_week,
              start_time |-> TimeColumn(s.start_time),
              end_time |-> TimeColumn(s.end_time),
              semester |-> semester,
              school_year |-> school_year,
              approved |-> <<>>] :
                s \in UNION {Range(final_assignment[v]) :
                                v \in DOMAIN final_assignment}}
    IN kept (+) SetToBag(insert_data)

searchVars == <<assignment, stack, ret, domains0>>

cacheVars == <<_compatibility_cache, _backtrack_cache>>

\* generate_schedule with _clear_caches called ahead of the validation
GenValidate_ClearFirst ==
    /\ pc = "gen_start"
    /\ UNCHANGED callVars
    /\ _compatibility_cache' = <<>>
    /\ _backtrack_cache' = <<>>
    /\ IF form.role # "admin"
       THEN outcome' = "login" /\ pc' = "done"
       ELSE LET v == _validate_time_inputs(form.start_time, form.end_time,
                                           form.semester, form.school_year)
            IN IF v.flash # ""
               THEN outcome' = v.flash /\ pc' = "done"
               ELSE outcome' = outcome /\ pc' = "gen_prepare"
    /\ UNCHANGED <<form, db, schedules, loadedVars, buildVars, ac3Vars,
                   keys, domains, instructor_load, max_loads,
                   _instructor_status, searchVars>>

\* is_admin and _validate_time_inputs (978-990)
GenValidate ==
    /\ pc = "gen_start"
    /\ UNCHANGED callVars
    /\ IF form.role # "admin"
       THEN outcome' = "login" /\ pc' = "done"
       ELSE LET v == _validate_time_inputs(form.start_time, form.end_time,
                                           form.semester, form.school_year)
            IN IF v.flash # ""
               THEN outcome' = v.flash /\ pc' = "done"
               ELSE outcome' = outcome /\ pc' = "gen_prepare"
    /\ UNCHANGED <<form, db, schedules, loadedVars, buildVars, ac3Vars,
                   keys, domains, instructor_load, max_loads,
                   _instructor_status, cacheVars, searchVars>>

\* lines 992-1002 without the call of _clear_caches
GenPrepare_KeepCaches ==
    /\ pc = "gen_prepare"
    /\ UNCHANGED callVars
    /\ UNCHANGED cacheVars
    /\ LET rows == get_approved_schedules(schedules, form.semester,
                                          form.school_year)
       IN approved_schedules' \in
              {l \in SeqsNoDup(rows, Cardinality(rows)) :
                  Len(l) = Cardinality(rows)}
    /\ time_slots' = _generate_time_slots_list(
                         strptime_short(form.start_time)[1],
                         strptime_short(form.end_time)[1])
    /\ IF time_slots' = <<>>
       THEN outcome' = "no_slots" /\ pc' = "done"
       ELSE outcome' = outcome /\ pc' = "gen_load"
    /\ UNCHANGED <<form, db, schedules, subjects, lecture_rooms, lab_rooms,
                   room_programs_map, buildVars, ac3Vars, keys, domains,
                   instructor_load, max_loads, _instructor_status,
                   searchVars>>

\* _clear_caches, get_approved_schedules, _generate_time_slots_list
\* (992-1002); the approved rows come in any order
GenPrepare ==
    /\ pc = "gen_prepare"
    /\ UNCHANGED callVars
    /\ _compatibility_cache' = <<>>
    /\ _backtrack_cache' = <<>>
    /\ LET rows == get_approved_schedules(schedules, form.semester,
                                          form.school_year)
       IN approved_schedules' \in
              {l \in SeqsNoDup(rows, Cardinality(rows)) :
                  Len(l) = Cardinality(rows)}
    /\ time_slots' = _generate_time_slots_list(
                         strptime_short(form.start_time)[1],
                         strptime_short(form.end_time)[1])
    /\ IF time_slots' = <<>>
       THEN outcome' = "no_slots" /\ pc' = "done"
       ELSE outcome' = outcome /\ pc' = "gen_load"
    /\ UNCHANGED <<form, db, schedules, subjects, lecture_rooms, lab_rooms,
                   room_programs_map, buildVars, ac3Vars, keys, domains,
                   instructor_load, max_loads, _instructor_status,
                   searchVars>>

\* _load_data formats DB_FIELDS['course_code'] into its first query (719);
\* DB_FIELDS (67-95) has no such key, the lookup raises KeyError and the
\* request ends without a message
GenLoadRaise ==
    /\ pc = "gen_load"
    /\ UNCHANGED callVars
    /\ outcome' = "exception"
    /\ pc' = "done"
    /\ UNCHANGED <<form, db, schedules, loadedVars, buildVars, ac3Vars,
                   keys, domains, instructor_load, max_loads,
                   _instructor_status, cacheVars, searchVars>>

\* _load_data returns its rows (728-758) and generate_schedule derives
\* max_loads, _instructor_status and the room lists (1009-1032): the request
\* once the lookup of line 719 succeeds; int(None) raises TypeError
GenLoad ==
    /\ pc = "gen_load"
    /\ UNCHANGED callVars
    /\ subjects' = LoadSubjects(db.subjects, schedules, form.semester,
                                form.school_year)
    /\ room_programs_map' = RoomProgramsMap(db.room_programs)
    /\ LET instructors == db.instructors
           row(id) == CHOOSE ins \in Range(instructors) :
                          ins.instructor_id = id
           ids == {ins.instructor_id : ins \in Range(instructors)}
       IN IF \E ins \in Range(instructors) : ins.max_load_units = <<>>
          THEN /\ outcome' = "exception"
               /\ pc' = "done"
               /\ UNCHANGED <<max_loads, _instructor_status, lecture_rooms,
                              lab_rooms>>
          ELSE /\ max_loads' = [id \in ids |-> row(id).max_load_units[1]]
               /\ _instructor_status' = [id \in ids |-> Lower(row(id).status)]
               /\ lecture_rooms' = SelectSeq(db.rooms, LAMBDA r :
                                       r.room_type = "Lecture")
               /\ lab_rooms' = SelectSeq(db.rooms, LAMBDA r :
                                   r.room_type = "Lab")
               /\ outcome' = outcome
               /\ pc' = "gen_submit"
    /\ instructor_load' = <<>>
    /\ domains' = <<>>
    /\ keys' = <<>>
    /\ UNCHANGED <<form, db, schedules, approved_schedules, time_slots,
                   buildVars, ac3Vars, cacheVars, searchVars>>

\* the executor is made and every subject submitted (1038-1053); the result
\* of each task is fixed here; ThreadPoolExecutor(max_workers=0) raises
GenSubmit ==
    /\ pc = "gen_submit"
    /\ UNCHANGED callVars
    /\ IF subjects = <<>>
       THEN /\ outcome' = "exception"
            /\ pc' = "done"
            /\ UNCHANGED futures
       ELSE /\ futures' \in SeqProduct([i \in 1..Len(subjects) |->
                                           BuildOutcomes(i)])
            /\ outcome' = outcome
            /\ pc' = "gen_collect"
    /\ completed' = <<>>
    /\ UNCHANGED <<form, db, schedules, loadedVars, ac3Vars, keys, domains,
                   instructor_load, max_loads, _instructor_status,
                   cacheVars, searchVars>>

\* one iteration of the as_completed loop (1055-1073): a raised task is
\* run again in the request thread, outside any try
GenCollect ==
    /\ pc = "gen_collect"
    /\ UNCHANGED callVars
    /\ \E i \in (1..Len(futures)) \ Range(completed) :
          \E again \in BuildOutcomes(i) :
             LET r == IF futures[i].raised THEN again ELSE futures[i]
             IN /\ completed' = Append(completed, i)
                /\ IF r.raised
                   THEN /\ outcome' = "exception"
                        /\ pc' = "done"
                        /\ UNCHANGED <<keys, domains>>
                   ELSE /\ domains' = Put(domains, r.var_name,
                                          r.local_domain)
                        /\ keys' = IF r.var_name \in Range(keys) THEN keys
                                   ELSE Append(keys, r.var_name)
                        /\ UNCHANGED <<pc, outcome>>
    /\ UNCHANGED <<form, db, schedules, loadedVars, futures, ac3Vars,
                   instructor_load, max_loads, _instructor_status,
                   cacheVars, searchVars>>

\* the pre-filter run before the as_completed loop has ended
GenPrefilter_Early ==
    /\ pc = "gen_collect"
    /\ UNCHANGED callVars
    /\ LET filtered == [var \in DOMAIN domains |->
                           SelectSeq(domains[var], LAMBDA g :
                               PrefilterKeep(g, max_loads))]
           kept == SelectSeq(keys, LAMBDA k : filtered[k] # <<>>)
       IN /\ keys' = kept
          /\ domains' = [k \in Range(kept) |-> filtered[k]]
          /\ IF kept = <<>>
             THEN outcome' = "no_valid_options" /\ pc' = "done"
             ELSE outcome' = outcome /\ pc' = "ac3_start"
    /\ UNCHANGED <<form, db, schedules, loadedVars, buildVars, ac3Vars,
                   instructor_load, max_loads, _instructor_status,
                   cacheVars, searchVars>>

\* the pre-filter, the removal of the empty domains and the test for no
\* domains (1080-1097)
GenPrefilter ==
    /\ pc = "gen_collect"
    /\ UNCHANGED callVars
    /\ Len(completed) = Len(futures)
    /\ LET filtered == [var \in DOMAIN domains |->
                           SelectSeq(domains[var], LAMBDA g :
                               PrefilterKeep(g, max_loads))]
           kept == SelectSeq(keys, LAMBDA k : filtered[k] # <<>>)
       IN /\ keys' = kept
          /\ domains' = [k \in Range(kept) |-> filtered[k]]
          /\ IF kept = <<>>
             THEN outcome' = "no_valid_options" /\ pc' = "done"
             ELSE outcome' = outcome /\ pc' = "ac3_start"
    /\ UNCHANGED <<form, db, schedules, loadedVars, buildVars, ac3Vars,
                   instructor_load, max_loads, _instructor_status,
                   cacheVars, searchVars>>

\* backtrack has returned to generate_schedule (1114-1118, 1126-1130)
GenFinish ==
    /\ pc = "bt_return"
    /\ UNCHANGED callVars
    /\ stack = <<>>
    /\ IF ShouldSave(ret)
       THEN outcome' = outcome /\ pc' = "save"
       ELSE outcome' = "schedule_failed" /\ pc' = "done"
    /\ UNCHANGED <<form, db, schedules, loadedVars, buildVars, ac3Vars,
                   keys, domains, instructor_load, max_loads,
                   _instructor_status, cacheVars, searchVars>>

\* the call of _save_schedule_to_db and the success message (1119-1125,
\* 1133-1174); None has no keys()
SaveSchedule ==
    /\ pc = "save"
    /\ UNCHANGED callVars
    /\ IF ret = None
       THEN outcome' = "exception" /\ UNCHANGED schedules
       ELSE /\ schedules' = _save_schedule_to_db(schedules, ret[1],
                                form.semester, form.school_year)
            /\ outcome' = "schedule_success"
    /\ pc' = "done"
    /\ UNCHANGED <<form, db, loadedVars, buildVars, ac3Vars, keys, domains,
                   instructor_load, max_loads, _instructor_status,
                   cacheVars, searchVars>>

----------------------------------------------------------------------------
(* One generate request on a small database: SpecRun *)

Form(role, start_time, end_time, semester, school_year) ==
    [role |-> role, start_time |-> start_time, end_time |-> end_time,
     semester |-> semester, school_year |-> school_year]

\* the window 08:00-09:30 holds two one-hour slots and one of 90 minutes,
\* 08:00-09:00 one slot of an hour, 08:00-08:30 none
RunForms ==
    {Form("admin", "08:00", "09:30", "1st", "2025"),
     Form("admin", "08:00", "09:00", "1st", "2025"),
     Form("admin", "08:00", "08:30", "1st", "2025"),
     Form("admin", "09:30", "08:00", "1st", "2025"),
     Form("admin", "8am", "09:30", "1st", "2025"),
     Form("admin", "08:00", "09:30", "", "2025"),
     Form("instructor", "08:00", "09:30", "1st", "2025")}

Subject(sid, instr_id, units, course) ==
    [subject_id |-> sid, instructor_id |-> instr_id, units |-> units,
     course |-> course, course_type |-> "Non-Major"]

\* instructor 9 has no instructors row, instructor 0 is NULL, units <<>> is
\* NULL
RunSubjectTables ==
    {<<Subject(1, 1, <<3>>, "bsit"), Subject(2, 1, <<2>>, "bsit")>>,
     <<Subject(1, 1, <<2>>, "BSCS"), Subject(2, 2, <<2>>, "bsit")>>,
     <<Subject(1, 1, <<>>, "bsit"), Subject(2, 1, <<2>>, "bsit")>>,
     <<Subject(1, 1, <<1>>, "bsit"), Subject(2, 9, <<2>>, "bsit")>>,
     <<Subject(1, 0, <<3>>, "bsit")>>}

Instructor(id, status, max_load_units) ==
    [instructor_id |-> id, status |-> status,
     max_load_units |-> max_load_units]

RunInstructorTables ==
    {<<Instructor(1, st, ml), Instructor(2, "Permanent", <<6>>)>> :
        st \in {"Permanent", "Part Time"},
        ml \in {<<>>, <<1>>, <<2>>, <<3>>, <<6>>}}

\* rooms and room_programs: one lecture room; two; two with room 2 kept
\* for the program BSCS
RunRoomTables ==
    {[rooms |-> <<Room(1, "Lecture")>>, room_programs |-> <<>>],
     [rooms |-> <<Room(1, "Lecture"), Room(2, "Lecture")>>,
      room_programs |-> <<>>],
     [rooms |-> <<Room(1, "Lecture"), Room(2, "Lecture")>>,
      room_programs |-> <<[room_id |-> 2, program_name |-> "bscs"]>>]}

ScheduleRow(sid, instr_id, room, day, start, end, semester, approved) ==
    [subject_id |-> sid, instructor_id |-> instr_id, room_id |-> room,
     day_of_week |-> day, start_time |-> start, end_time |-> end,
     semester |-> semester, school_year |-> "2025", approved |-> approved]

\* no rows; unapproved rows of subject 1 in this and another term; an
\* approved row of subject 2 in room 1
RunSchedules ==
    {EmptyBag,
     SetToBag({ScheduleRow(1, 1, 1, "Friday", <<8, 0, 0>>, <<9, 0, 0>>,
                           "1st", <<0>>),
               ScheduleRow(1, 1, 1, "Friday", <<8, 0, 0>>, <<9, 0, 0>>,
                           "2nd", <<>>)}),
     SetToBag({ScheduleRow(2, 2, 1, "Tuesday", <<8, 0, 0>>, <<9, 30, 0>>,
                           "1st", <<1>>)})}

InitRun ==
    /\ args = <<>> /\ returned = <<>> /\ suspended = <<>>
    /\ pc = "gen_start"
    /\ form \in RunForms
    /\ \E sb \in RunSubjectTables, ins \in RunInstructorTables,
          rm \in RunRoomTables :
          db = [subjects |-> sb, instructors |-> ins, rooms |-> rm.rooms,
                room_programs |-> rm.room_programs]
    /\ schedules \in RunSchedules
    /\ outcome = ""
    /\ approved_schedules = <<>> /\ time_slots = <<>> /\ subjects = <<>>
    /\ lecture_rooms = <<>> /\ lab_rooms = <<>> /\ room_programs_map = <<>>
    /\ futures = <<>> /\ completed = <<>>
    /\ queue = <<>> /\ revisions = 0
    /\ keys = <<>> /\ domains = <<>> /\ domains0 = <<>>
    /\ assignment = <<>> /\ instructor_load = <<>>
    /\ max_loads = <<>> /\ _instructor_status = <<>>
    /\ _compatibility_cache = <<>> /\ _backtrack_cache = <<>>
    /\ stack = <<>> /\ ret = None

NextRun ==
    \/ GenValidate \/ GenPrepare \/ GenLoadRaise \/ GenLoad \/ GenSubmit
    \/ GenCollect \/ GenPrefilter \/ Ac3Start \/ Ac3Revise \/ Ac3Done
    \/ BtCall \/ BtTry \/ BtExhaust \/ BtReturn \/ GenFinish \/ SaveSchedule

SpecRun == InitRun /\ [][NextRun]_vars

----------------------------------------------------------------------------
(* Claims about the request, checked under SpecRun *)

\* the request has ended without the success message
Failed == pc = "done" /\ outcome # "schedule_success"

\* a loaded subject whose build task returned an empty domain
EmptyAfterBuild(i) == ~futures[i].raised /\ futures[i].local_domain = <<>>

\* C8: whenever at least one loaded subject ends the build with an empty
\* domain, the run ends in a failure outcome and persists no schedule.
C8_EmptyDomainFails ==
    (/\ pc = "done"
     /\ \E i \in 1..Len(futures) : EmptyAfterBuild(i))
    => Failed

\* C10: _save_schedule_to_db is reached only after backtrack returned a
\* non-null assignment, and the table schedules changes in no other step,
\* so no row is deleted or inserted on a failure outcome.
C10_SaveOnlyAfterSolution ==
    [][/\ pc' = "save" => (BtReturned /\ ret # None /\ ret' = ret)
       /\ schedules' # schedules =>
             (pc = "save" /\ ret # None /\ outcome' = "schedule_success")]_vars

\* a run that replaced an unapproved row by the rows of its assignment
C10_Witness ==
    /\ pc = "done"
    /\ outcome = "schedule_success"
    /\ ret # None
    /\ \E r \in BagToSet(schedules) : r.semester = "1st" /\ r.approved = <<>>
    /\ \E r \in BagToSet(schedules) : r.semester = "2nd"
    /\ ~\E r \in BagToSet(schedules) : r.approved = <<0>>

\* C11: when a build task raises and its synchronous retry raises too, the
\* run continues to a structured outcome instead of ending with the
\* exception.
C11_RetryFailureContinues ==
    (\E i \in Range(completed) : futures[i].raised) => outcome # "exception"

----------------------------------------------------------------------------
(* A request for two subjects of the MWF pattern: SpecPair *)

\* 08:00-10:00 holds the one-hour slots 08:00, 08:30 and 09:00; 11:00-13:00
\* holds 11:00, 11:30 and 12:00, of which a permanent instructor may only
\* take the first (lunch)
PairForms ==
    {Form("admin", "08:00", "10:00", "1st", "2025"),
     Form("admin", "11:00", "13:00", "1st", "2025")}

PairSubjectTables ==
    {<<Subject(1, 1, <<3>>, "bsit"), Subject(2, i, u, "bsit")>> :
        i \in {1, 2}, u \in {<<3>>, <<4>>}}

\* status "" is NULL
PairInstructorTables ==
    {<<Instructor(1, st, ml), Instructor(2, st2, <<3>>)>> :
        st \in {"Permanent", ""}, st2 \in {"Permanent", ""},
        ml \in {<<2>>, <<3>>, <<6>>}}

PairRoomTables ==
    {[rooms |-> <<Room(1, "Lecture")>>, room_programs |-> <<>>],
     [rooms |-> <<Room(1, "Lecture"), Room(2, "Lecture")>>,
      room_programs |-> <<[room_id |-> 2, program_name |-> "bscs"]>>]}

InitPair ==
    /\ args = <<>> /\ returned = <<>> /\ suspended = <<>>
    /\ pc = "gen_start"
    /\ form \in PairForms
    /\ \E sb \in PairSubjectTables, ins \in PairInstructorTables,
          rm \in PairRoomTables :
          db = [subjects |-> sb, instructors |-> ins, rooms |-> rm.rooms,
                room_programs |-> rm.room_programs]
    /\ schedules = EmptyBag
    /\ outcome = ""
    /\ approved_schedules = <<>> /\ time_slots = <<>> /\ subjects = <<>>
    /\ lecture_rooms = <<>> /\ lab_rooms = <<>> /\ room_programs_map = <<>>
    /\ futures = <<>> /\ completed = <<>>
    /\ queue = <<>> /\ revisions = 0
    /\ keys = <<>> /\ domains = <<>> /\ domains0 = <<>>
    /\ assignment = <<>> /\ instructor_load = <<>>
    /\ max_loads = <<>> /\ _instructor_status = <<>>
    /\ _compatibility_cache = <<>> /\ _backtrack_cache = <<>>
    /\ stack = <<>> /\ ret = None

SpecPair == InitPair /\ [][NextRun]_vars

----------------------------------------------------------------------------
(* Claims about the two-subject request, checked under SpecPair *)

\* the instructors row of a subject's instructor; the scenario gives one
InstructorOf(sb) ==
    CHOOSE ins \in Range(db.instructors) :
        ins.instructor_id = sb.instructor_id

\* the slots of the form's day window
WindowSlots ==
    _generate_time_slots_list(strptime_short(form.start_time)[1],
                              strptime_short(form.end_time)[1])

\* two 60-minute slots among the given ones that do not overlap
TwoDisjointHours(slots) ==
    \E a, b \in slots :
        /\ time_to_minutes(a[2]) - time_to_minutes(a[1]) = SlotLengthShort
        /\ time_to_minutes(b[2]) - time_to_minutes(b[1]) = SlotLengthShort
        /\ ~intervals_overlap(a[1], a[2], b[1], b[2])

\* the lecture rooms whose program list admits both subjects
SharedRooms ==
    {r \in Range(db.rooms) :
        /\ r.room_type = "Lecture"
        /\ \A sb \in Range(db.subjects) :
              RoomAllowed(r, RoomProgramsMap(db.room_programs),
                          StripUpper(sb.course))}

\* the scenario of C12 except for its condition on the day window
PairScenario ==
    /\ Len(db.subjects) = 2
    /\ db.subjects[1].instructor_id # db.subjects[2].instructor_id
    /\ \A sb \in Range(db.subjects) :
          /\ sb.units # <<>> /\ sb.units[1] >= 3
          /\ Lower(sb.course_type) = "non-major"
          /\ \E ins \in Range(db.instructors) :
                ins.instructor_id = sb.instructor_id
          /\ Lower(InstructorOf(sb).status) # "part time"
          /\ InstructorOf(sb).max_load_units # <<>>
          /\ InstructorOf(sb).max_load_units[1] >= 3
    /\ Cardinality(SharedRooms) = 1
    /\ ~\E r \in BagToSet(schedules) : r.approved = <<1>>

\* the solver is passed with both subjects placed: no failure message, both
\* domains non-empty while ac3 runs and after it, and backtrack returns an
\* assignment of both
BothPlaced ==
    /\ outcome \notin {"no_valid_options", "ac3_failed", "schedule_failed"}
    /\ pc \in {"ac3_start", "ac3_loop", "bt_call", "bt_loop", "bt_return"} =>
          \A sb \in Range(db.subjects) :
              /\ ToString(sb.subject_id) \in DOMAIN domains
              /\ domains[ToString(sb.subject_id)] # <<>>
    /\ BtReturned =>
          /\ ret # None
          /\ DOMAIN ret[1] = {ToString(sb.subject_id) :
                                 sb \in Range(db.subjects)}

\* C12 as stated: in the scenario, with a day window that admits at least
\* two non-overlapping 60-minute slots, AC-3 returns true with both domains
\* non-empty and backtrack returns an assignment that places both subjects.
C12_PairPlaced ==
    (PairScenario /\ TwoDisjointHours(Range(WindowSlots))) => BothPlaced

\* the slots of the window that the status of every instructor of the
\* scenario admits for a lecture
SlotsOpenToAll ==
    {slot \in Range(WindowSlots) :
        \A sb \in Range(db.subjects) :
            SlotAllowed(slot, LectureMinDuration, LectureMaxDuration,
                        Lower(InstructorOf(sb).status))}

\* C12 as amended: the two non-overlapping 60-minute slots are slots that
\* both instructors may take (for a permanent instructor: clear of the lunch
\* hour and inside the workday).
C12_PairPlacedOpenSlots ==
    (PairScenario /\ TwoDisjointHours(SlotsOpenToAll)) => BothPlaced

\* the scenario with a permanent instructor, solved and saved
C12_Witness ==
    /\ PairScenario
    /\ TwoDisjointHours(SlotsOpenToAll)
    /\ \E sb \in Range(db.subjects) :
          Lower(InstructorOf(sb).status) = "permanent"
    /\ pc = "done"
    /\ outcome = "schedule_success"
    /\ revisions > 0

----------------------------------------------------------------------------
(* Direct calls of the oracle functions: SpecOracle and SpecMemo *)

OverlapTimes == {<<8, 0>>, <<8, 30>>, <<9, 0>>, <<10, 0>>, <<11, 0>>}

\* sessions as the builder makes them: ids of existing rows, a pattern day
OracleSessions ==
    {Session(sid, instr_id, Room(room, "Lecture"), day, slot[1], slot[2]) :
        sid \in {1, 2}, instr_id \in {1, 2}, room \in {1, 2},
        day \in {"Monday", "Tuesday"},
        slot \in {<<<<8, 0>>, <<9, 0>>>>, <<<<8, 30>>, <<9, 30>>>>,
                  <<<<9, 0>>, <<10, 0>>>>}}

\* the empty group, the one-session groups and the groups of one session
\* on each of two days
OracleGroups ==
    {<<>>} \cup {<<x>> : x \in OracleSessions}
           \cup {<<x, [x EXCEPT !.day_of_week = "Tuesday"]>> :
                    x \in {y \in OracleSessions : y.day_of_week = "Monday"}}

\* the day windows _validate_time_inputs lets through: start before end,
\* in minutes since midnight, on and off the half hours
SlotWindows ==
    {w \in {480, 490, 510, 540, 555, 570, 600, 630, 660, 690, 720}
            \X {480, 490, 510, 540, 555, 570, 600, 630, 660, 690, 720} :
        w[1] < w[2]}

InitOracle ==
    /\ \/ pc = "call_overlap" /\ args \in OverlapTimes \X OverlapTimes
                                          \X OverlapTimes \X OverlapTimes
       \/ pc = "call_compatible" /\ args \in OracleGroups \X OracleGroups
       \/ pc = "call_slots" /\ args \in SlotWindows
    /\ returned = <<>> /\ suspended = <<>>
    /\ form = <<>> /\ db = <<>> /\ schedules = EmptyBag /\ outcome = ""
    /\ approved_schedules = <<>> /\ time_slots = <<>> /\ subjects = <<>>
    /\ lecture_rooms = <<>> /\ lab_rooms = <<>> /\ room_programs_map = <<>>
    /\ futures = <<>> /\ completed = <<>>
    /\ queue = <<>> /\ revisions = 0
    /\ keys = <<>> /\ domains = <<>> /\ domains0 = <<>>
    /\ assignment = <<>> /\ instructor_load = <<>>
    /\ max_loads = <<>> /\ _instructor_status = <<>>
    /\ _compatibility_cache = <<>> /\ _backtrack_cache = <<>>
    /\ stack = <<>> /\ ret = None

\* what a direct call leaves alone
besidesCall == <<form, db, schedules, outcome, loadedVars, buildVars,
                 ac3Vars, keys, domains, instructor_load, max_loads,
                 _instructor_status, _backtrack_cache, searchVars,
                 suspended>>

\* intervals_overlap(s1, e1, s2, e2)
CallIntervalsOverlap ==
    /\ pc = "call_overlap"
    /\ returned' = Some(intervals_overlap(args[1], args[2], args[3], args[4]))
    /\ pc' = "called_overlap"
    /\ UNCHANGED <<args, _compatibility_cache, besidesCall>>

\* groups_compatible(group_a, group_b)
CallGroupsCompatible ==
    /\ pc = "call_compatible"
    /\ LET c == groups_compatible(_compatibility_cache, args[1], args[2])
       IN /\ returned' = Some(c.result)
          /\ _compatibility_cache' = c.cache
    /\ pc' = "called_compatible"
    /\ UNCHANGED <<args, besidesCall>>

\* _generate_time_slots_list(start_time, end_time)
CallGenerateTimeSlots ==
    /\ pc = "call_slots"
    /\ returned' = Some(_generate_time_slots_list(args[1], args[2]))
    /\ pc' = "called_slots"
    /\ UNCHANGED <<args, _compatibility_cache, besidesCall>>

NextOracle ==
    CallIntervalsOverlap \/ CallGroupsCompatible \/ CallGenerateTimeSlots

SpecOracle == InitOracle /\ [][NextOracle]_vars

\* three groups: the first and second share the instructor at the same
\* time, the second and third are the same subject with two instructors,
\* the first and third are compatible
MemoGroups ==
    {<<>>,
     <<Session(1, 1, Room(1, "Lecture"), "Monday", <<8, 0>>, <<9, 0>>)>>,
     <<Session(2, 1, Room(2, "Lecture"), "Monday", <<8, 0>>, <<9, 0>>)>>,
     <<Session(2, 2, Room(2, "Lecture"), "Monday", <<9, 0>>, <<10, 0>>)>>}

InitMemo ==
    /\ pc = "memo"
    /\ args = <<>> /\ returned = <<>> /\ suspended = <<>>
    /\ form = <<>> /\ db = <<>> /\ schedules = EmptyBag /\ outcome = ""
    /\ approved_schedules = <<>> /\ time_slots = <<>> /\ subjects = <<>>
    /\ lecture_rooms = <<>> /\ lab_rooms = <<>> /\ room_programs_map = <<>>
    /\ futures = <<>> /\ completed = <<>>
    /\ queue = <<>> /\ revisions = 0
    /\ keys = <<>> /\ domains = <<>> /\ domains0 = <<>>
    /\ assignment = <<>> /\ instructor_load = <<>>
    /\ max_loads = <<>> /\ _instructor_status = <<>>
    /\ _compatibility_cache = <<>> /\ _backtrack_cache = <<>>
    /\ stack = <<>> /\ ret = None

\* one more call of groups_compatible in the same run
MemoCall ==
    /\ pc = "memo"
    /\ \E group_a, group_b \in MemoGroups :
          LET c == groups_compatible(_compatibility_cache, group_a, group_b)
          IN /\ args' = <<group_a, group_b>>
             /\ returned' = Some(c.result)
             /\ _compatibility_cache' = c.cache
    /\ UNCHANGED <<pc, besidesCall>>

NextMemo == MemoCall

SpecMemo == InitMemo /\ [][NextMemo]_vars

----------------------------------------------------------------------------
(* Claims about the oracle functions *)

\* C13: intervals_overlap(s1, e1, s2, e2) is true exactly when s1 < e2 and
\* s2 < e1 on minutes since midnight; swapping the two intervals gives the
\* same answer; intervals that only touch at an endpoint do not overlap
\* (08:00-09:00 against 09:00-10:00 is false, 08:00-10:00 against
\* 09:00-11:00 is true).
C13_OverlapStrict ==
    pc = "called_overlap" =>
        LET s1 == args[1][1] * 60 + args[1][2]
            e1 == args[2][1] * 60 + args[2][2]
            s2 == args[3][1] * 60 + args[3][2]
            e2 == args[4][1] * 60 + args[4][2]
        IN /\ returned = Some(s1 < e2 /\ s2 < e1)
           /\ returned = Some(intervals_overlap(args[3], args[4],
                                                args[1], args[2]))
           /\ (e1 = s2 \/ e2 = s1) /\ s1 < e1 /\ s2 < e2
                 => returned = Some(FALSE)
           /\ args = <<<<8, 0>>, <<9, 0>>, <<9, 0>>, <<10, 0>>>>
                 => returned = Some(FALSE)
           /\ args = <<<<8, 0>>, <<10, 0>>, <<9, 0>>, <<11, 0>>>>
                 => returned = Some(TRUE)

C13_Witness ==
    /\ pc = "called_overlap"
    /\ args = <<<<8, 0>>, <<9, 0>>, <<9, 0>>, <<10, 0>>>>
    /\ returned = Some(FALSE)

\* the conflict between two sessions as C14 words it
ClaimedConflict(a, b) ==
    \/ /\ a.subject_id = b.subject_id
       /\ \/ a.instructor_id # b.instructor_id
          \/ a.room_id # b.room_id
          \/ a.day_of_week = b.day_of_week
    \/ /\ a.subject_id # b.subject_id
       /\ SameTime(a, b)
       /\ a.room_id = b.room_id \/ a.instructor_id = b.instructor_id

\* C14: groups_compatible(A, B) is true when A or B is empty; otherwise it
\* is false exactly when some session of A and some session of B are of
\* the same subject and differ in instructor or in room or share a day, or
\* are of different subjects on the same day at overlapping times in the
\* same room or with the same instructor.
C14_CompatibleExactly ==
    pc = "called_compatible" =>
        returned = Some(\/ args[1] = <<>>
                        \/ args[2] = <<>>
                        \/ ~\E i \in DOMAIN args[1], j \in DOMAIN args[2] :
                               ClaimedConflict(args[1][i], args[2][j]))

C14_Witness ==
    /\ pc = "called_compatible"
    /\ Len(args[1]) = 1 /\ Len(args[2]) = 2
    /\ ~ClaimedConflict(args[1][1], args[2][1])
    /\ ClaimedConflict(args[1][1], args[2][2])
    /\ returned = Some(FALSE)

\* C15: after any sequence of groups_compatible calls in one run, the
\* call for (A, B) and the call for (B, A) give the same answer, whichever
\* of them the memo already holds.
C15_MemoSymmetric ==
    \A group_a, group_b \in MemoGroups :
        groups_compatible(_compatibility_cache, group_a, group_b).result
          = groups_compatible(_compatibility_cache, group_b, group_a).result

C15_Witness ==
    \E group_a, group_b \in MemoGroups :
        /\ args = <<group_a, group_b>>
        /\ returned = Some(FALSE)
        /\ <<GroupKey(group_a).hash_val, GroupKey(group_b).hash_val>> \in DOMAIN _compatibility_cache
        /\ <<GroupKey(group_b).hash_val, GroupKey(group_a).hash_val>> \notin DOMAIN _compatibility_cache
        /\ \E g \in MemoGroups \ {group_a, group_b} :
               /\ <<GroupKey(group_a).hash_val, GroupKey(g).hash_val>> \in DOMAIN _compatibility_cache
               /\ _compatibility_cache[<<GroupKey(group_a).hash_val, GroupKey(g).hash_val>>]

----------------------------------------------------------------------------
(* ac3 called on the domains of three subjects: SpecAc3 *)

\* longest small domain handed to ac3
MaxAc3Dom == 2

Ac3Keys == <<"1", "2", "3">>

Ac3SubjectId == ("1" :> 1) @@ ("2" :> 2) @@ ("3" :> 3)

\* who teaches each subject: subject "1" has instructor 1
Ac3Instructors == {("1" :> 1) @@ ("2" :> i2) @@ ("3" :> i3) :
                      i2 \in {1, 2}, i3 \in {2, 3}}

Ac3Group(v, instr, room, slot) ==
    PatternGroup(Ac3SubjectId[v], instr[v], Room(room, "Lecture"), MWF,
                 BTSlot[slot][1], BTSlot[slot][2])

\* the (room, slot) pairs the builder left to each subject
Ac3Eligible ==
    ("1" :> {<<1, "A">>, <<1, "B">>, <<2, "A">>, <<2, "B">>}) @@
    ("2" :> {<<1, "A">>, <<2, "A">>, <<2, "B">>}) @@
    ("3" :> {<<2, "A">>, <<2, "B">>})

\* the short domains: up to MaxAc3Dom of the subject's groups in any order
Ac3SmallDomains(v, instr) ==
    SeqsNoDup({Ac3Group(v, instr, e[1], e[2]) : e \in Ac3Eligible[v]},
              MaxAc3Dom) \ {<<>>}

\* a domain as long as the trim threshold: one slot in that many rooms
Ac3LargeDomain(v, instr) ==
    [room \in 1..Ac3TrimThreshold |-> Ac3Group(v, instr, room, "A")]

\* ac3(domains, trim_large_domains=True) as generate_schedule calls it
\* (1101): every domain is non-empty (1092) and the caches are cleared
InitAc3 ==
    /\ pc = "ac3_start"
    /\ args = <<>> /\ returned = <<>> /\ suspended = <<>>
    /\ form = <<>> /\ db = <<>> /\ schedules = EmptyBag /\ outcome = ""
    /\ approved_schedules = <<>> /\ time_slots = <<>> /\ subjects = <<>>
    /\ lecture_rooms = <<>> /\ lab_rooms = <<>> /\ room_programs_map = <<>>
    /\ futures = <<>> /\ completed = <<>>
    /\ queue = <<>> /\ revisions = 0
    /\ keys = Ac3Keys
    /\ \E instr \in Ac3Instructors :
          \E d1 \in Ac3SmallDomains("1", instr)
                      \cup {Ac3LargeDomain("1", instr)},
             d2 \in Ac3SmallDomains("2", instr),
             d3 \in Ac3SmallDomains("3", instr) :
                domains = ("1" :> d1) @@ ("2" :> d2) @@ ("3" :> d3)
    /\ domains0 = domains
    /\ assignment = <<>> /\ instructor_load = <<>>
    /\ max_loads = <<>> /\ _instructor_status = <<>>
    /\ _compatibility_cache = <<>> /\ _backtrack_cache = <<>>
    /\ stack = <<>> /\ ret = None

NextAc3 == Ac3Start \/ Ac3Revise \/ Ac3Done

SpecAc3 == InitAc3 /\ [][NextAc3]_vars

----------------------------------------------------------------------------
(* Claims about ac3 *)

RECURSIVE IsSubSeq(_, _)
IsSubSeq(a, b) ==
    IF a = <<>> THEN TRUE
    ELSE IF b = <<>> THEN FALSE
    ELSE IF Head(a) = Head(b) THEN IsSubSeq(Tail(a), Tail(b))
    ELSE IsSubSeq(a, Tail(b))

\* ac3 has been called and has not returned
InAc3 == pc \in {"ac3_start", "ac3_loop"}

\* C16: no step of ac3 adds to a domain or changes the set of variables:
\* after every step each domain is a sub-collection of what it was before
\* the step, hence of the domain ac3 was called with, also on return.
C16_DomainsOnlyShrink ==
    [][InAc3 => /\ DOMAIN domains' = DOMAIN domains
                /\ \A xk \in DOMAIN domains :
                      IsSubSeq(domains'[xk], domains[xk])]_vars

C16_Witness ==
    /\ pc = "bt_call"
    /\ revisions >= 2
    /\ \E xk \in DOMAIN domains : Len(domains[xk]) = Ac3TrimThreshold - 1

\* C17: ac3 returns false exactly when a revision leaves a domain empty,
\* so when it returns true for domains that were all non-empty, every
\* domain is still non-empty.
C17_FalseIffEmptied ==
    [][InAc3 => /\ (\E xk \in DOMAIN domains' : domains'[xk] = <<>>)
                      <=> outcome' = "ac3_failed"
                /\ pc' = "bt_call"
                      => \A xk \in DOMAIN domains' : domains'[xk] # <<>>]_vars

C17_Witness ==
    /\ outcome = "ac3_failed"
    /\ revisions >= 2
    /\ \E xk \in DOMAIN domains : domains[xk] = <<>>

\* both arcs of the pair are in the worklist q
Enqueued(q, xi, xj) == <<xi, xj>> \in Range(q) /\ <<xj, xi>> \in Range(q)

\* C18: with trimming on, the initial worklist leaves a pair out only when
\* both of its domains exceed the threshold of 40; a pair with at least
\* one domain under the threshold is enqueued in both directions.
C18_SkipOnlyBothLarge ==
    [][pc = "ac3_start" /\ pc' = "ac3_loop" =>
         \A i, j \in DOMAIN keys :
            i < j =>
              LET xi == keys[i]
                  xj == keys[j]
              IN /\ ~Enqueued(queue', xi, xj)
                      => /\ Len(domains[xi]) > Ac3TrimThreshold
                         /\ Len(domains[xj]) > Ac3TrimThreshold
                 /\ \/ Len(domains[xi]) < Ac3TrimThreshold
                    \/ Len(domains[xj]) < Ac3TrimThreshold
                      => Enqueued(queue', xi, xj)]_vars

\* C19: a pair that the initial worklist left out is not revised later in
\* the same call: every arc ac3 takes from the worklist is of a pair the
\* initial worklist held (domains0 is what ac3 was called with).
C19_SkippedNeverRevised ==
    [][pc = "ac3_loop" /\ pc' # "bt_call" =>
         Head(queue) \in Range(Ac3Queue(keys, domains0, TRUE))]_vars

----------------------------------------------------------------------------
(* Claims about the slot generator and the domain builder *)

\* C21: for a window [S, E] the slot list holds, each once, exactly the
\* pairs that start at S + 30k minutes (k >= 0), last 60 or 90 minutes and
\* end at or before E; it is empty when E - S is under 60 minutes.
C21_SlotsExactly ==
    pc = "called_slots" =>
        LET S == args[1]
            E == args[2]
            slots == returned[1]
            mins(p) == <<p[1][1] * 60 + p[1][2], p[2][1] * 60 + p[2][2]>>
        IN /\ \A i, j \in DOMAIN slots : i # j => slots[i] # slots[j]
           /\ \A i \in DOMAIN slots :
                 /\ \E k \in 0..((E - S) \div 30) :
                       mins(slots[i])[1] = S + 30 * k
                 /\ mins(slots[i])[2] - mins(slots[i])[1] \in {60, 90}
                 /\ mins(slots[i])[2] <= E
           /\ \A k \in 0..((E - S) \div 30), d \in {60, 90} :
                 S + 30 * k + d <= E
                    => \E i \in DOMAIN slots :
                          mins(slots[i]) = <<S + 30 * k, S + 30 * k + d>>
           /\ E - S < 60 => slots = <<>>

C21_Witness ==
    /\ pc = "called_slots"
    /\ args = <<490, 600>>
    /\ Len(returned[1]) = 3

\* C22: every session the builder makes for a subject of a permanent
\* instructor starts at or after 08:00, ends at or before 17:00 and does
\* not overlap 12:00-13:00; ending at 12:00 or starting at 13:00 is
\* allowed.
C22_PermanentHours ==
    (/\ pc = "build_return"
     /\ Get(_instructor_status, subjects[1].instructor_id, "") = "permanent")
    => \A s \in DomainSessions :
          LET st == s.start_time[1] * 60 + s.start_time[2]
              en == s.end_time[1] * 60 + s.end_time[2]
          IN /\ st >= 8 * 60
             /\ en <= 17 * 60
             /\ en <= 12 * 60 \/ st >= 13 * 60

\* the window 16:00-17:30 leaves a permanent instructor 16:00-17:00 only
C22_Witness ==
    /\ pc = "build_return"
    /\ Get(_instructor_status, subjects[1].instructor_id, "") = "permanent"
    /\ <<<<16, 30>>, <<17, 30>>>> \in Range(time_slots)
    /\ \E s \in DomainSessions : s.end_time = <<17, 0>>

\* the sessions of the groups of an assignment
AssignedSessions(asg) == UNION {Range(asg[v]) : v \in DOMAIN asg}

\* the room of the session is unrestricted in table room_programs or has a
\* row for the program of the session's subject (names compared stripped
\* and in upper case)
RoomOpenToSubject(s) ==
    LET rows == {rp \in Range(db.room_programs) : rp.room_id = s.room_id}
    IN \/ rows = {}
       \/ \E rp \in rows, sb \in Range(db.subjects) :
             /\ sb.subject_id = s.subject_id
             /\ StripUpper(rp.program_name) = StripUpper(sb.course)

\* C23: every session in a domain, in the assignment under construction
\* and in the assignment backtrack returns is in a room that is
\* unrestricted or allows the program of the session's subject.
C23_RoomProgramRespected ==
    /\ \A s \in DomainSessions : RoomOpenToSubject(s)
    /\ \A s \in AssignedSessions(assignment) : RoomOpenToSubject(s)
    /\ ret # None => \A s \in AssignedSessions(ret[1]) : RoomOpenToSubject(s)

\* a returned assignment with the restricted room used by the subject of
\* its program and the other subject elsewhere
C23_Witness ==
    /\ BtReturned
    /\ ret # None
    /\ db.room_programs # <<>>
    /\ \E s, t \in AssignedSessions(ret[1]) :
          /\ s.room_id = 2
          /\ t.subject_id # s.subject_id
          /\ \E sb \in Range(db.subjects) :
                sb.subject_id = t.subject_id /\ StripUpper(sb.course) = "BSIT"

----------------------------------------------------------------------------
(* Claims about the candidate loop of backtrack *)

\* the candidate group the loop of the innermost call is about to try
Candidate == Top.vals[Top.i]

\* the loop is about to try a group of a part-time instructor
TriesPartTime ==
    /\ pc = "bt_loop"
    /\ Top.i <= Len(Top.vals)
    /\ Candidate # <<>>
    /\ PartTime(Candidate[1].instructor_id)

\* the days of the instructor's assigned groups and of the candidate are
\* one day
UnionOneDay ==
    Cardinality(DaysTaught(assignment, Candidate[1].instructor_id)
                  \cup Days(Candidate)) = 1

\* the step leaves the candidate out of the assignment
Rejected == assignment' = assignment /\ pc' = "bt_loop"

\* the other reasons the loop has to reject the candidate
OverLoad ==
    LET instr == Candidate[1].instructor_id
    IN SumLen(assignment, TaughtBy(assignment, instr)) + Len(Candidate)
          > Get(max_loads, instr, 0)

Incompatible ==
    \E v \in DOMAIN assignment : ~CompatibleDirect(Candidate, assignment[v])

ForwardCheckEmpties ==
    LET doms1 == ForwardCheckDirect(Put(assignment, Top.var, Candidate),
                                    domains, Candidate)
    IN \E k \in DOMAIN doms1 : doms1[k] = <<>>

\* C24 as stated: a candidate group of a part-time instructor is rejected
\* by the search exactly when the days of the instructor's assigned groups
\* together with the days of the candidate are a single day.
C24_RejectedIffOneDay ==
    [][TriesPartTime => (Rejected <=> UnionOneDay)]_vars

\* C24 as amended: such a candidate is always rejected when those days are
\* a single day; when they are not, it is rejected only for another
\* reason: the load cap, an incompatibility with an assigned group or a
\* forward check that empties a domain.
C24_OneDayRejected ==
    [][TriesPartTime =>
         /\ UnionOneDay => Rejected
         /\ (Rejected /\ ~UnionOneDay)
               => (OverLoad \/ Incompatible \/ ForwardCheckEmpties)]_vars

\* the loop has just passed over a one-day group of a part-time
\* instructor that fits the load cap and the assigned groups
C24_Witness ==
    /\ pc = "bt_loop"
    /\ Top.i >= 2
    /\ LET g == Top.vals[Top.i - 1]
           instr == g[1].instructor_id
       IN /\ PartTime(instr)
          /\ Cardinality(DaysTaught(assignment, instr) \cup Days(g)) = 1
          /\ SumLen(assignment, TaughtBy(assignment, instr)) + Len(g)
                <= Get(max_loads, instr, 0)
          /\ \A v \in DOMAIN assignment : CompatibleDirect(g, assignment[v])
          /\ assignment # <<>>

----------------------------------------------------------------------------
(* The build phase of the request, checked under SpecRun *)

\* the domain recorded for the i-th submitted subject is what its task
\* returned
Recorded(i) ==
    /\ ~futures[i].raised
    /\ futures[i].var_name = ToString(subjects[i].subject_id)
    /\ futures[i].var_name \in DOMAIN domains
    /\ domains[futures[i].var_name] = futures[i].local_domain

\* C25: the build phase is a join: the request leaves the as_completed loop
\* for the pre-filter and AC-3 only when every submitted subject has been
\* collected, and after each collection, in whatever order the tasks
\* complete, the domain recorded for each collected subject is the result
\* of that subject's own build task.
C25_BuildJoin ==
    [][/\ (pc = "gen_collect" /\ pc' = "gen_collect")
            => \A i \in Range(completed') : Recorded(i)'
       /\ (pc = "gen_collect" /\ pc' = "ac3_start")
            => /\ Len(futures) = Len(subjects)
               /\ Range(completed) = 1..Len(subjects)
               /\ \A i \in 1..Len(subjects) :
                     Recorded(i) /\ futures[i] \in BuildOutcomes(i)]_vars

\* AC-3 is about to start on two subjects whose tasks completed in the
\* reverse of the order of submission
C25_Witness ==
    /\ pc = "ac3_start"
    /\ completed = <<2, 1>>
    /\ Len(subjects) = 2
    /\ \A i \in 1..2 : ~futures[i].raised /\ futures[i].local_domain # <<>>
    /\ futures[1].local_domain # futures[2].local_domain

----------------------------------------------------------------------------
(* Requests served one after another by the same process: SpecSeq *)

\* the forms of the requests: two windows that hold slots, one too short
\* for a slot and one that fails the validation
SeqForms ==
    {Form("admin", "08:00", "09:30", "1st", "2025"),
     Form("admin", "08:00", "09:00", "1st", "2025"),
     Form("admin", "08:00", "08:30", "1st", "2025"),
     Form("admin", "09:30", "08:00", "1st", "2025")}

\* two subjects of one instructor and two subjects of two instructors
SeqSubjectTables ==
    {<<Subject(1, 1, <<3>>, "bsit"), Subject(2, 1, <<2>>, "bsit")>>,
     <<Subject(1, 1, <<2>>, "bsit"), Subject(2, 2, <<2>>, "bsit")>>}

SeqInstructorTables ==
    {<<Instructor(1, "Permanent", ml), Instructor(2, "Permanent", <<6>>)>> :
        ml \in {<<3>>, <<6>>}}

InitSeq ==
    /\ args = <<>> /\ returned = <<>> /\ suspended = <<>>
    /\ pc = "gen_start"
    /\ form \in SeqForms
    /\ \E sb \in SeqSubjectTables, ins \in SeqInstructorTables :
          db = [subjects |-> sb, instructors |-> ins,
                rooms |-> <<Room(1, "Lecture")>>, room_programs |-> <<>>]
    /\ schedules = EmptyBag
    /\ outcome = ""
    /\ approved_schedules = <<>> /\ time_slots = <<>> /\ subjects = <<>>
    /\ lecture_rooms = <<>> /\ lab_rooms = <<>> /\ room_programs_map = <<>>
    /\ futures = <<>> /\ completed = <<>>
    /\ queue = <<>> /\ revisions = 0
    /\ keys = <<>> /\ domains = <<>> /\ domains0 = <<>>
    /\ assignment = <<>> /\ instructor_load = <<>>
    /\ max_loads = <<>> /\ _instructor_status = <<>>
    /\ _compatibility_cache = <<>> /\ _backtrack_cache = <<>>
    /\ stack = <<>> /\ ret = None

\* the next POST to /generate enters generate_schedule (975-977): the locals
\* of the call are new, the tables and the module globals (122-126) are as
\* the earlier request left them
GenNextRequest ==
    /\ pc = "done"
    /\ pc' = "gen_start"
    /\ form' \in SeqForms
    /\ outcome' = ""
    /\ approved_schedules' = <<>> /\ time_slots' = <<>> /\ subjects' = <<>>
    /\ lecture_rooms' = <<>> /\ lab_rooms' = <<>>
    /\ room_programs_map' = <<>>
    /\ futures' = <<>> /\ completed' = <<>>
    /\ queue' = <<>> /\ revisions' = 0
    /\ keys' = <<>> /\ domains' = <<>> /\ domains0' = <<>>
    /\ assignment' = <<>> /\ instructor_load' = <<>>
    /\ max_loads' = <<>>
    /\ stack' = <<>> /\ ret' = None
    /\ UNCHANGED <<db, schedules, _instructor_status, cacheVars, callVars>>

NextSeq ==
    \/ GenValidate \/ GenPrepare \/ GenLoadRaise \/ GenLoad \/ GenSubmit
    \/ GenCollect \/ GenPrefilter \/ Ac3Start \/ Ac3Revise \/ Ac3Done
    \/ BtCall \/ BtTry \/ BtExhaust \/ BtReturn \/ GenFinish \/ SaveSchedule
    \/ GenNextRequest

SpecSeq == InitSeq /\ [][NextSeq]_vars

\* the request is between its call of _clear_caches and the first step of
\* AC-3
ClearedNotYetSolving ==
    pc \in {"gen_load", "gen_submit", "gen_collect", "ac3_start"}

\* C26: the compatibility and dead-state caches are cleared at the start of
\* each run: in a sequence of runs, from the clearing until AC-3 starts
\* both caches are empty, so AC-3 and backtracking of a run read no entry
\* that an earlier run wrote.
C26_CachesFreshPerRun ==
    ClearedNotYetSolving =>
        _compatibility_cache = <<>> /\ _backtrack_cache = <<>>

\* AC-3 of a later run is about to start: the table holds rows that an
\* earlier run of the sequence saved for two subjects
C26_Witness ==
    /\ pc = "ac3_start"
    /\ \E r, s \in BagToSet(schedules) : r.subject_id # s.subject_id
    /\ _compatibility_cache = <<>>
    /\ _backtrack_cache = <<>>

\* a request starts while both caches hold entries of an earlier run
StaleCachesAtStart ==
    /\ pc = "gen_prepare"
    /\ _compatibility_cache # <<>>
    /\ _backtrack_cache # <<>>

----------------------------------------------------------------------------
(* Two runs of the build on the same inputs, side by side: SpecTwin.       *)
(* A task is <<run, i>>, the build of subjects[i] in that run.  In this    *)
(* specification args[r] is the list of approved rows as run r fetched it, *)
(* returned[t] the local_domain of task t when it reaches line 967,        *)
(* futures[t] what the task returned and completed the order in which the  *)
(* tasks finished.                                                         *)

\* subject 1 is a three-unit subject of instructor 1; subject 2 has two
\* units, or NULL units, or an instructor without an instructors row
TwinSubjects ==
    {<<Subject(1, 1, <<3>>, "bsit"), Subject(2, 2, <<2>>, "BSCS")>>,
     <<Subject(1, 1, <<3>>, "bsit"), Subject(2, 9, <<2>>, "BSCS")>>,
     <<Subject(1, 1, <<3>>, "bsit"), Subject(2, 2, <<>>, "BSCS")>>}

\* one lecture room open to all, or a second one kept for BSCS
TwinRooms ==
    {[rooms |-> <<Room(1, "Lecture")>>, programs |-> <<>>],
     [rooms |-> <<Room(1, "Lecture"), Room(2, "Lecture")>>,
      programs |-> (2 :> <<"BSCS">>)]}

\* no approved rows, or a row that takes instructor 1 on Monday from 08:00
\* and a row that takes room 1 on Wednesday from 09:00
TwinApproved ==
    {<<>>,
     <<Approved(1, 9, "Monday", <<8, 0>>, <<8, 30>>, 7),
       Approved(5, 1, "Wednesday", <<9, 0>>, <<9, 30>>, 8)>>}

\* the orders in which a query without ORDER BY may return the rows
RowOrders(rows) ==
    {l \in SeqsNoDup(Range(rows), Len(rows)) : Len(l) = Len(rows)}

TwinTasks == {<<r, i>> : r \in 1..2, i \in 1..2}

InitTwin ==
    /\ pc = "twin_build"
    /\ form = <<>> /\ db = <<>> /\ schedules = EmptyBag /\ outcome = ""
    /\ subjects \in TwinSubjects
    /\ time_slots = _generate_time_slots_list(480, 570)
    /\ \E rm \in TwinRooms :
          lecture_rooms = rm.rooms /\ room_programs_map = rm.programs
    /\ lab_rooms = <<>>
    /\ approved_schedules \in TwinApproved
    /\ args \in {<<approved_schedules, l>> : l \in RowOrders(approved_schedules)}
    /\ returned = <<>> /\ suspended = <<>>
    /\ max_loads = (1 :> 6) @@ (2 :> 6)
    /\ _instructor_status \in {(1 :> "permanent") @@ (2 :> "part time")}
    /\ futures = <<>> /\ completed = <<>>
    /\ queue = <<>> /\ revisions = 0
    /\ keys = <<>> /\ domains = <<>> /\ domains0 = <<>>
    /\ assignment = <<>> /\ instructor_load = <<>>
    /\ _compatibility_cache = <<>> /\ _backtrack_cache = <<>>
    /\ stack = <<>> /\ ret = None

\* a worker runs _build_domain_for_subject up to line 966: the early
\* return (792-793), the int() of NULL units (799) or the candidate list
TwinCandidates ==
    /\ pc = "twin_build"
    /\ \E t \in TwinTasks \ (DOMAIN returned \cup DOMAIN futures) :
          LET subj == subjects[t[2]]
          IN IF subj.instructor_id = 0
                \/ subj.instructor_id \notin DOMAIN max_loads
             THEN /\ futures' = Put(futures, t,
                        [raised |-> FALSE,
                         var_name |-> ToString(subj.subject_id),
                         local_domain |-> <<>>])
                  /\ completed' = Append(completed, t)
                  /\ UNCHANGED returned
             ELSE IF subj.units = <<>>
             THEN /\ futures' = Put(futures, t,
                        [raised |-> TRUE, var_name |-> "",
                         local_domain |-> <<>>])
                  /\ completed' = Append(completed, t)
                  /\ UNCHANGED returned
             ELSE /\ returned' = Put(returned, t,
                        BuildCandidates(subj, subj.units[1], time_slots,
                            lecture_rooms, lab_rooms, room_programs_map,
                            args[t[1]],
                            Get(_instructor_status, subj.instructor_id, "")))
                  /\ UNCHANGED <<futures, completed>>
    /\ UNCHANGED <<pc, requestVars, loadedVars, ac3Vars, keys, domains,
                   assignment, instructor_load, max_loads,
                   _instructor_status, cacheVars, stack, ret, domains0,
                   args, suspended>>

\* the worker samples or shuffles its list and returns (967-972)
TwinShuffle ==
    /\ pc = "twin_build"
    /\ \E t \in DOMAIN returned \ DOMAIN futures :
          \E d \in Shuffled(returned[t]) :
             /\ futures' = Put(futures, t,
                   [raised |-> FALSE,
                    var_name |-> ToString(subjects[t[2]].subject_id),
                    local_domain |-> d])
             /\ completed' = Append(completed, t)
    /\ UNCHANGED <<pc, requestVars, loadedVars, ac3Vars, keys, domains,
                   assignment, instructor_load, max_loads,
                   _instructor_status, cacheVars, stack, ret, domains0,
                   callVars>>

NextTwin == TwinCandidates \/ TwinShuffle

SpecTwin == InitTwin /\ [][NextTwin]_vars

----------------------------------------------------------------------------
(* revise_fast and the result of ac3, checked under SpecAc3 *)

\* ac3 is about to call revise_fast on the arc at the head of its worklist
RevisesArc(xi, xj) ==
    /\ pc = "ac3_loop"
    /\ queue # <<>>
    /\ revisions < Len(keys) * Ac3RevisionFactor
    /\ Head(queue) = <<xi, xj>>

\* val has a compatible value in the domain dom
Supported(val, dom) == \E w \in Range(dom) : CompatibleDirect(val, w)

\* C28: revise_fast(domains, Xi, Xj) with both domains non-empty leaves in
\* Xi's domain exactly the prior values that have a compatible value in
\* Xj's domain, in their order, returns true (the revision is counted)
\* exactly when a value was removed, and leaves the domain of Xj and of
\* every other variable as it was.
C28_ReviseExact ==
    [][\A xi, xj \in DOMAIN domains :
          (RevisesArc(xi, xj) /\ domains[xi] # <<>> /\ domains[xj] # <<>>)
          => /\ domains'[xi] = SelectSeq(domains[xi], LAMBDA val :
                                   Supported(val, domains[xj]))
             /\ (revisions' = revisions + 1)
                   <=> Len(domains'[xi]) < Len(domains[xi])
             /\ revisions' \in {revisions, revisions + 1}
             /\ DOMAIN domains' = DOMAIN domains
             /\ \A xk \in DOMAIN domains \ {xi} :
                   domains'[xk] = domains[xk]]_vars

\* a revision has removed one of two values and kept the other, whose
\* support is not the first value of the other domain
C28_Witness ==
    /\ pc = "ac3_loop"
    /\ revisions = 1
    /\ \E xi, xj \in DOMAIN domains :
          /\ xi # xj
          /\ Len(domains0[xi]) = 2 /\ Len(domains[xi]) = 1
          /\ Len(domains[xj]) = 2
          /\ domains[xj] = domains0[xj]
          /\ ~CompatibleDirect(domains[xi][1], domains[xj][1])
          /\ CompatibleDirect(domains[xi][1], domains[xj][2])
          /\ <<xi, xj>> \notin Range(queue)

\* every value of every domain has a compatible value in every other domain
ArcConsistent(doms) ==
    \A xi, xj \in DOMAIN doms :
        xi # xj => \A val \in Range(doms[xi]) : Supported(val, doms[xj])

\* ac3 returns true with its worklist drained, below the revision cap
ReturnsDrained ==
    /\ pc = "ac3_loop"
    /\ pc' = "bt_call"
    /\ queue = <<>>
    /\ revisions < Len(keys) * Ac3RevisionFactor

\* C29: when ac3 returns true with the worklist drained, the revision cap
\* not reached and no pair skipped by trimming (every domain it was called
\* with under 40), the domains are arc-consistent: every value in every
\* variable's domain has at least one compatible value in every other
\* variable's domain.
C29_ArcConsistentOnReturn ==
    [][(/\ ReturnsDrained
        /\ \A xk \in DOMAIN domains0 :
              Len(domains0[xk]) < Ac3TrimThreshold)
       => ArcConsistent(domains')]_vars

\* ac3 has returned true with its worklist drained after three revisions
\* that removed values; every domain it was called with was short
C29_Witness ==
    /\ pc = "bt_call"
    /\ queue = <<>>
    /\ revisions >= 3
    /\ \A xk \in DOMAIN domains : Len(domains[xk]) <= 2
    /\ ArcConsistent(domains)

----------------------------------------------------------------------------
(* The load bookkeeping of backtrack, checked under SpecBT *)

\* the instructors that instructor_load, max_loads or the assignment name
KnownInstructors ==
    DOMAIN instructor_load \cup DOMAIN max_loads \cup InstructorsOf(assignment)

\* C30: at every entry to backtrack, for each instructor the load recorded
\* in instructor_load (absent counts as 0) equals the sum of the sizes of
\* the groups currently in the assignment that are taught by that
\* instructor.
C30_LoadMatchesAssignment ==
    pc = "bt_call" =>
        \A instr \in KnownInstructors :
            Get(instructor_load, instr, 0)
                = SumLen(assignment, TaughtBy(assignment, instr))

\* backtrack is entered after a branch has failed and been undone (a dead
\* state is cached) with two groups of one instructor assigned
C30_Witness ==
    /\ pc = "bt_call"
    /\ _backtrack_cache # <<>>
    /\ \E instr \in DOMAIN instructor_load :
          /\ Cardinality(TaughtBy(assignment, instr)) = 2
          /\ instructor_load[instr] > 0

----------------------------------------------------------------------------
(* Forward checking and the undoing of failed branches, under SpecBT *)

\* backtrack is entered by a call from its own loop
RecursiveEntry == pc = "bt_call" /\ stack # <<>>

\* C31: at every recursive entry to backtrack, every unassigned variable's
\* domain is non-empty and contains only groups that are compatible with
\* every group currently in the assignment.
C31_DomainsForwardChecked ==
    RecursiveEntry =>
        \A xk \in DOMAIN domains \ DOMAIN assignment :
            /\ domains[xk] # <<>>
            /\ \A g \in Range(domains[xk]) :
                  \A v \in DOMAIN assignment :
                      CompatibleDirect(g, assignment[v])

\* a recursive entry with two variables assigned, after a branch has
\* failed, where forward checking has removed a group from the domain of
\* the unassigned variable
C31_Witness ==
    /\ RecursiveEntry
    /\ Cardinality(DOMAIN assignment) = 2
    /\ _backtrack_cache # <<>>
    /\ \E xk \in DOMAIN domains \ DOMAIN assignment :
          /\ domains[xk] # <<>>
          /\ Len(domains[xk]) < Len(domains0[xk])

\* the list seq as a collection, ignoring order
Collection(seq) ==
    [x \in Range(seq) |-> Cardinality({i \in 1..Len(seq) : seq[i] = x})]

\* the assignment made by the first n calls of the stack, each suspended at
\* the candidate it is trying
PathAssignment(n) ==
    [v \in {stack[j].var : j \in 1..n} |->
        LET j == CHOOSE j \in 1..n : stack[j].var = v
        IN stack[j].vals[stack[j].i]]

\* the domains at the entry of the call made by the n-th call of the stack:
\* the domains of the first call, forward checked against the candidates of
\* the first n calls in turn
RECURSIVE PathDomains(_)
PathDomains(n) ==
    IF n = 0 THEN domains0
    ELSE ForwardCheckDirect(PathAssignment(n), PathDomains(n - 1),
                            stack[n].vals[stack[n].i])

\* the assignment, the loads and the domains are those of the entry of the
\* call made by the n-th call of the stack
AsAtEntry(n) ==
    /\ assignment = PathAssignment(n)
    /\ \A instr \in KnownInstructors :
          Get(instructor_load, instr, 0)
              = SumLen(PathAssignment(n), TaughtBy(PathAssignment(n), instr))
    /\ DOMAIN domains = DOMAIN domains0
    /\ \A xk \in DOMAIN domains :
          Collection(domains[xk]) = Collection(PathDomains(n)[xk])

\* C32: when a call to backtrack returns None, the partial assignment,
\* every instructor's load (absent counts as 0) and the contents of every
\* variable's domain (as a collection, ignoring order) are the same as when
\* that call was entered, and the same holds after each rejected candidate
\* inside the loop.  The state at the entry of a call is fixed by the
\* candidates at which its callers are suspended: it holds at the entry,
\* between the candidates of the call's loop, and when None is returned.
C32_FailureRestoresState ==
    /\ pc = "bt_call" => AsAtEntry(Len(stack))
    /\ pc = "bt_loop" => AsAtEntry(Len(stack) - 1)
    /\ (pc = "bt_return" /\ ret = None) => AsAtEntry(Len(stack))

\* a nested call has returned None to a caller that had assigned a group
\* and whose forward check had removed a group from another domain
C32_Witness ==
    /\ pc = "bt_return"
    /\ ret = None
    /\ Len(stack) >= 2
    /\ Top.backup # <<>>
    /\ assignment # <<>>
    /\ AsAtEntry(Len(stack))

\* backtrack is about to try the next candidate of the call on top of the
\* stack
TriesCandidate == pc = "bt_loop" /\ Top.i <= Len(Top.vals)

\* the backup that the forward check of the step returned
ReturnedBackup == stack'[Len(stack')].backup

\* C33: forward_check is all-or-nothing: when it returns False every domain
\* equals its value before the call (a rejected candidate leaves every
\* domain as it was); when it succeeds, the returned backup maps exactly
\* the variables whose domain shrank to their prior domain, and the domains
\* of the assigned variables and of the variable just assigned are
\* untouched.
C33_ForwardCheckAllOrNothing ==
    [][TriesCandidate =>
          /\ pc' = "bt_loop" => domains' = domains
          /\ pc' = "bt_call" =>
                /\ DOMAIN domains' = DOMAIN domains
                /\ DOMAIN ReturnedBackup
                      = {xk \in DOMAIN domains : domains'[xk] # domains[xk]}
                /\ \A xk \in DOMAIN ReturnedBackup :
                      /\ ReturnedBackup[xk] = domains[xk]
                      /\ Len(domains'[xk]) < Len(domains[xk])
                      /\ IsSubSeq(domains'[xk], domains[xk])
                /\ \A xk \in DOMAIN assignment' :
                      domains'[xk] = domains[xk]]_vars

\* a forward check has succeeded: of the two unassigned variables one had
\* its domain shrunk and is in the backup, the other kept its domain
C33_Witness ==
    /\ pc = "bt_call"
    /\ Len(stack) = 1
    /\ Cardinality(DOMAIN Top.backup) = 1
    /\ Cardinality(DOMAIN domains \ DOMAIN assignment) = 2
    /\ \E xk \in DOMAIN domains \ DOMAIN assignment :
          xk \notin DOMAIN Top.backup /\ domains[xk] = domains0[xk]

\* the forward check of the first candidate has failed: nothing is
\* assigned and the instructor's load has been set back to 0
ForwardCheckFailed ==
    /\ pc = "bt_loop"
    /\ Len(stack) = 1
    /\ Top.i = 2
    /\ assignment = <<>>
    /\ instructor_load # <<>>

----------------------------------------------------------------------------
(* The shape of the groups the builder returns, checked under SpecBuild *)

\* the sessions of group g on the days of one sub-pattern
OnDays(g, days) ==
    {s \in Range(g) : s.day_of_week \in Range(days)}

\* g has exactly one instance on each day of the sub-pattern, all in one
\* room and one time slot
SubPattern(g, days) ==
    /\ \A d \in Range(days) :
          Cardinality({i \in 1..Len(g) : g[i].day_of_week = d}) = 1
    /\ \A s, t \in OnDays(g, days) :
          /\ s.room_id = t.room_id
          /\ s.start_time = t.start_time
          /\ s.end_time = t.end_time

\* every instance of g carries the subject's id and instructor and falls
\* on a day of the sub-patterns
OfSubject(g, subj, patterns) ==
    /\ \A s \in Range(g) :
          /\ s.subject_id = subj.subject_id
          /\ s.instructor_id = subj.instructor_id
          /\ \E days \in patterns : s.day_of_week \in Range(days)
    /\ \A days \in patterns : SubPattern(g, days)

\* the sub-patterns of the weekly pattern of a subject
WeeklyPattern(subj) ==
    IF IsMajor3(subj) THEN {MWF, TTh}
    ELSE IF subj.units[1] >= 3 THEN {MWF}
    ELSE IF subj.units[1] = 2 THEN {TTh}
    ELSE {OneDay}

----------------------------------------------------------------------------
(* C35: the stages of one request *)

\* the form the claim calls invalid: no semester or school year, a time
\* that is not HH:MM, or a start that is not before the end
InvalidInput(f) ==
    \/ f.semester = "" \/ f.school_year = ""
    \/ strptime_short(f.start_time) = <<>>
    \/ strptime_short(f.end_time) = <<>>
    \/ strptime_short(f.start_time)[1] >= strptime_short(f.end_time)[1]

InputErrors == {"time_required", "time_format", "time_invalid"}

\* nothing of the request has been read or built
NothingRead ==
    /\ approved_schedules = <<>> /\ time_slots = <<>> /\ subjects = <<>>
    /\ lecture_rooms = <<>> /\ lab_rooms = <<>> /\ room_programs_map = <<>>
    /\ max_loads = <<>>

NothingBuilt == futures = <<>> /\ completed = <<>> /\ domains = <<>>

\* C35: a step of a running request sets the outcome exactly when it ends
\* the run, and never twice; an input error ends the run at the validation
\* with the caches as they were and nothing read, and does so for every
\* invalid form of an administrator; no_slots is set with no domain built;
\* ac3 is entered with a non-empty domain; backtrack is first called when
\* the loop of ac3 has ended with no domain emptied; the save and the
\* success outcome follow a returned assignment.
C35_StagesOrdered ==
    [][pc # "done" =>
         /\ outcome = ""
         /\ (outcome' # "") <=> (pc' = "done")
         /\ outcome' \in InputErrors =>
               /\ pc = "gen_start"
               /\ UNCHANGED cacheVars
               /\ NothingRead /\ NothingRead' /\ NothingBuilt'
         /\ (pc = "gen_start" /\ form.role = "admin" /\ InvalidInput(form))
               => outcome' \in InputErrors
         /\ outcome' = "no_slots" =>
               pc = "gen_prepare" /\ NothingBuilt /\ NothingBuilt'
         /\ pc' = "ac3_loop" =>
               \E k \in DOMAIN domains : domains[k] # <<>>
         /\ (pc' = "bt_call" /\ pc \notin {"bt_call", "bt_loop",
                                            "bt_return"}) =>
               /\ pc = "ac3_loop"
               /\ queue = <<>> \/ revisions >= Len(keys) * Ac3RevisionFactor
               /\ \A k \in DOMAIN domains : domains[k] # <<>>
               /\ domains' = domains
         /\ pc' = "save" =>
               pc = "bt_return" /\ stack = <<>> /\ ret # None /\ ret' = ret
         /\ outcome' = "schedule_success" => pc = "save" /\ ret # None
      ]_vars

\* a request with start after end has ended at the validation and left the
\* entries of the request before it in both caches
C35_Witness ==
    /\ pc = "done"
    /\ outcome = "time_invalid"
    /\ _backtrack_cache # <<>>
    /\ _compatibility_cache # <<>>
    /\ NothingRead /\ NothingBuilt

\* the other endings of the stages
C35_NoSlots == pc = "done" /\ outcome = "no_slots"
C35_Ac3Failed == pc = "done" /\ outcome = "ac3_failed"
C35_Failed == pc = "done" /\ outcome = "schedule_failed"
C35_Success == pc = "done" /\ outcome = "schedule_success"

----------------------------------------------------------------------------
(* Two requests served by two threads of one process: SpecShared *)

\* the windows of the two requests: each holds two one-hour slots and one
\* slot of an hour and a half
SharedForms ==
    {Form("admin", "08:00", "09:30", "1st", "2025"),
     Form("admin", "08:30", "10:00", "1st", "2025")}

\* the locals of the call of generate_schedule that runs now; the tables,
\* _instructor_status and the two caches (122-126) belong to the process
Locals ==
    [pc |-> pc, form |-> form, outcome |-> outcome,
     approved_schedules |-> approved_schedules, time_slots |-> time_slots,
     subjects |-> subjects, lecture_rooms |-> lecture_rooms,
     lab_rooms |-> lab_rooms, room_programs_map |-> room_programs_map,
     futures |-> futures, completed |-> completed, queue |-> queue,
     revisions |-> revisions, keys |-> keys, domains |-> domains,
     assignment |-> assignment, instructor_load |-> instructor_load,
     max_loads |-> max_loads, stack |-> stack, ret |-> ret,
     domains0 |-> domains0]

\* a request that has just entered generate_schedule (975-977)
Entered(f) ==
    [pc |-> "gen_start", form |-> f, outcome |-> "",
     approved_schedules |-> <<>>, time_slots |-> <<>>, subjects |-> <<>>,
     lecture_rooms |-> <<>>, lab_rooms |-> <<>>,
     room_programs_map |-> <<>>, futures |-> <<>>, completed |-> <<>>,
     queue |-> <<>>, revisions |-> 0, keys |-> <<>>, domains |-> <<>>,
     assignment |-> <<>>, instructor_load |-> <<>>, max_loads |-> <<>>,
     stack |-> <<>>, ret |-> None, domains0 |-> <<>>]

InitShared ==
    /\ args = <<>> /\ returned = <<>>
    /\ pc = "gen_start"
    /\ form \in SharedForms
    /\ \E f \in SharedForms : suspended = Entered(f)
    /\ \E ins \in SeqInstructorTables :
          db = [subjects |-> <<Subject(1, 1, <<3>>, "bsit"),
                              Subject(2, 1, <<2>>, "bsit")>>,
                instructors |-> ins,
                rooms |-> <<Room(1, "Lecture")>>, room_programs |-> <<>>]
    /\ schedules = EmptyBag
    /\ outcome = ""
    /\ approved_schedules = <<>> /\ time_slots = <<>> /\ subjects = <<>>
    /\ lecture_rooms = <<>> /\ lab_rooms = <<>> /\ room_programs_map = <<>>
    /\ futures = <<>> /\ completed = <<>>
    /\ queue = <<>> /\ revisions = 0
    /\ keys = <<>> /\ domains = <<>> /\ domains0 = <<>>
    /\ assignment = <<>> /\ instructor_load = <<>>
    /\ max_loads = <<>> /\ _instructor_status = <<>>
    /\ _compatibility_cache = <<>> /\ _backtrack_cache = <<>>
    /\ stack = <<>> /\ ret = None

\* the interpreter passes control to the other thread: the locals of the
\* two calls change places, the module globals and the tables stay
ThreadSwitch ==
    /\ suspended # <<>>
    /\ suspended.pc # "done"
    /\ suspended' = Locals
    /\ pc' = suspended.pc
    /\ form' = suspended.form
    /\ outcome' = suspended.outcome
    /\ approved_schedules' = suspended.approved_schedules
    /\ time_slots' = suspended.time_slots
    /\ subjects' = suspended.subjects
    /\ lecture_rooms' = suspended.lecture_rooms
    /\ lab_rooms' = suspended.lab_rooms
    /\ room_programs_map' = suspended.room_programs_map
    /\ futures' = suspended.futures
    /\ completed' = suspended.completed
    /\ queue' = suspended.queue
    /\ revisions' = suspended.revisions
    /\ keys' = suspended.keys
    /\ domains' = suspended.domains
    /\ assignment' = suspended.assignment
    /\ instructor_load' = suspended.instructor_load
    /\ max_loads' = suspended.max_loads
    /\ stack' = suspended.stack
    /\ ret' = suspended.ret
    /\ domains0' = suspended.domains0
    /\ UNCHANGED <<db, schedules, _instructor_status, cacheVars, args,
                   returned>>

NextShared ==
    \/ GenValidate \/ GenPrepare \/ GenLoadRaise \/ GenLoad \/ GenSubmit
    \/ GenCollect \/ GenPrefilter \/ Ac3Start \/ Ac3Revise \/ Ac3Done
    \/ BtCall \/ BtTry \/ BtExhaust \/ BtReturn \/ GenFinish \/ SaveSchedule
    \/ ThreadSwitch

SpecShared == InitShared /\ [][NextShared]_vars

\* a step of the request that runs, not a change of thread
RequestStep == suspended' = suspended

\* the assignment holds a group that is not in the domains d0 a request
\* searches
Foreign(a, d0) ==
    \E v \in DOMAIN a : v \notin DOMAIN d0 \/ a[v] \notin Range(d0[v])

\* C36: both caches are globals of the module, one for all requests of the
\* process: a thread change leaves them as they are, the clearing of a
\* starting request empties both whatever the other request has stored in
\* them, and a lookup of backtrack returns the entry under its signature
\* whichever request stored it; so with two interleaved requests a search
\* reads entries of the other request and loses its own in mid-search.
C36_OneCacheForAllRuns ==
    [][/\ ~RequestStep => UNCHANGED cacheVars
       /\ (RequestStep /\ pc = "gen_prepare") =>
             _compatibility_cache' = <<>> /\ _backtrack_cache' = <<>>
       /\ (RequestStep /\ pc = "bt_call"
             /\ ~IsComplete(assignment, domains)
             /\ StateSig(assignment, domains, instructor_load)
                   \in DOMAIN _backtrack_cache) =>
             /\ pc' = "bt_return"
             /\ ret' = _backtrack_cache[StateSig(assignment, domains,
                                                 instructor_load)]
             /\ stack' = stack
      ]_vars

\* the first call of backtrack of a request has returned, from the cache,
\* an assignment of groups the request never had in its domains: the
\* other request stored it
C36_Witness ==
    /\ pc = "bt_return"
    /\ stack = <<>>
    /\ ret # None
    /\ Foreign(ret[1], domains0)
    /\ suspended.ret = ret
    /\ ~Foreign(ret[1], suspended.domains0)
    /\ StateSig(<<>>, domains0, <<>>) \in DOMAIN _backtrack_cache

\* a search has stored a dead state and waits in mid-search while the
\* other request, starting, has emptied the cache
C36_ClearedInMidSearch ==
    /\ suspended.pc = "bt_return"
    /\ suspended.stack # <<>>
    /\ suspended.ret = None
    /\ pc = "gen_load"
    /\ _backtrack_cache = <<>>

\* the foreign assignment has been saved as the schedule of the request
C36_ForeignSaved ==
    /\ pc = "done"
    /\ outcome = "schedule_success"
    /\ Foreign(ret[1], domains0)

----------------------------------------------------------------------------
(* C37: ac3 with and without trimming: SpecAc3Both *)

\* entry of ac3 called with trim_large_domains=False (357-372): every pair
\* is enqueued
Ac3StartAll ==
    /\ pc = "ac3_start"
    /\ UNCHANGED callVars
    /\ queue' = Ac3Queue(keys, domains, FALSE)
    /\ revisions' = 0
    /\ pc' = "ac3_loop"
    /\ UNCHANGED <<requestVars, loadedVars, buildVars, keys, domains,
                   assignment, instructor_load, max_loads,
                   _instructor_status, _compatibility_cache,
                   _backtrack_cache, stack, ret, domains0>>

NextAc3Both == Ac3Start \/ Ac3StartAll \/ Ac3Revise \/ Ac3Done

SpecAc3Both == InitAc3 /\ [][NextAc3Both]_vars

\* the choices of one group for each variable of ks from the domains d
RECURSIVE OnePerVariable(_, _)
OnePerVariable(ks, d) ==
    IF ks = <<>> THEN {<<>>}
    ELSE {Put(s, Head(ks), g) :
             s \in OnePerVariable(Tail(ks), d), g \in Range(d[Head(ks)])}

\* the choices of one group per variable that are pairwise compatible
Solutions(d) ==
    {s \in OnePerVariable(keys, d) :
        \A u \in DOMAIN s : \A v \in DOMAIN s \ {u} :
           CompatibleDirect(s[u], s[v])}

\* C37: while ac3 runs on domains that have a pairwise compatible choice,
\* no step removes a group of such a choice and no step makes ac3 return
\* False; so ac3 returns True with every such choice still in the domains.
C37_Ac3PreservesSolutions ==
    [][InAc3 => \A s \in Solutions(domains0) :
                   /\ outcome' # "ac3_failed"
                   /\ \A v \in DOMAIN s : s[v] \in Range(domains'[v])]_vars

\* ac3 has returned True after removing groups, and a compatible choice of
\* its input is in the domains it leaves
C37_Witness ==
    /\ pc = "bt_call"
    /\ revisions >= 2
    /\ queue = <<>>
    /\ Solutions(domains) # {}
    /\ \A v \in DOMAIN domains : Len(domains[v]) <= MaxAc3Dom

----------------------------------------------------------------------------
(* C38: what the compatibility cache answers *)

\* every group a build task of the request returned
BuiltGroups == UNION {Range(futures[i].local_domain) : i \in DOMAIN futures}

CacheKey(group_a, group_b) ==
    <<GroupKey(group_a).hash_val, GroupKey(group_b).hash_val>>

----------------------------------------------------------------------------
(* C39: the day-spread rule and the order of assignment *)

\* a group of the candidate's instructor in the domain of another
\* unassigned variable that, with the candidate and the instructor's
\* assigned groups, spans two days or more
SpreadPossible ==
    LET instr == Candidate[1].instructor_id
    IN \E xk \in DOMAIN domains \ (DOMAIN assignment \cup {Top.var}) :
          \E h \in Range(domains[xk]) :
             /\ h[1].instructor_id = instr
             /\ Cardinality(DaysTaught(assignment, instr) \cup Days(h)
                               \cup Days(Candidate)) >= 2

\* C39: the day-spread check does not depend on the order of assignment: a
\* group of a part-time instructor that, with the instructor's other
\* groups, spans two days or more is accepted when the search reaches it,
\* first or later, unless the load cap, an assigned group or the forward
\* check rejects it.
C39_SpreadOrderFree ==
    [][(TriesPartTime /\ SpreadPossible
          /\ ~OverLoad /\ ~Incompatible /\ ~ForwardCheckEmpties)
         => ~Rejected]_vars

\* the search has passed over a one-day group of a part-time instructor
\* with none of the instructor's groups assigned, while a group on other
\* days of the same instructor waits in another domain
C39_FirstGroupRejected ==
    /\ pc = "bt_loop"
    /\ Top.i >= 2
    /\ LET g == Top.vals[Top.i - 1]
           instr == g[1].instructor_id
       IN /\ PartTime(instr)
          /\ Cardinality(Days(g)) = 1
          /\ TaughtBy(assignment, instr) = {}
          /\ \E xk \in DOMAIN domains \ (DOMAIN assignment \cup {Top.var}) :
                \E h \in Range(domains[xk]) :
                   /\ h[1].instructor_id = instr
                   /\ Days(h) # Days(g)

----------------------------------------------------------------------------
(* C40: ac3 followed by backtrack, run to the end: SpecSolve *)

\* the load caps of the three instructors
SolveMaxLoads ==
    {(1 :> 6) @@ (2 :> 6) @@ (3 :> 3), (1 :> 3) @@ (2 :> 3) @@ (3 :> 3)}

\* ac3(domains, trim_large_domains=True) and, when it returns True,
\* backtrack({}, domains, instructor_load, max_loads) (1101-1114)
InitSolve ==
    /\ pc = "ac3_start"
    /\ args = <<>> /\ returned = <<>> /\ suspended = <<>>
    /\ form = <<>> /\ db = <<>> /\ schedules = EmptyBag /\ outcome = ""
    /\ approved_schedules = <<>> /\ time_slots = <<>> /\ subjects = <<>>
    /\ lecture_rooms = <<>> /\ lab_rooms = <<>> /\ room_programs_map = <<>>
    /\ futures = <<>> /\ completed = <<>>
    /\ queue = <<>> /\ revisions = 0
    /\ keys = Ac3Keys
    /\ \E instr \in {t \in Ac3Instructors : t["3"] = 2} :
          \E d1 \in Ac3SmallDomains("1", instr),
             d2 \in Ac3SmallDomains("2", instr),
             d3 \in Ac3SmallDomains("3", instr) :
                domains = ("1" :> d1) @@ ("2" :> d2) @@ ("3" :> d3)
    /\ domains0 = domains
    /\ assignment = <<>> /\ instructor_load = <<>>
    /\ max_loads \in SolveMaxLoads
    /\ _instructor_status = (1 :> "permanent") @@ (2 :> "permanent")
                               @@ (3 :> "permanent")
    /\ _compatibility_cache = <<>> /\ _backtrack_cache = <<>>
    /\ stack = <<>> /\ ret = None

NextSolve ==
    \/ Ac3Start \/ Ac3Revise \/ Ac3Done
    \/ BtCall \/ BtTry \/ BtExhaust \/ BtReturn

\* what every iteration of the loop of ac3 does to the worklist (374-382):
\* the head arc is taken off and, after a revision, arcs are appended
LoopOfAc3Runs ==
    /\ pc = "ac3_loop"
    /\ queue # <<>>
    /\ revisions < Len(keys) * Ac3RevisionFactor
    /\ queue' \in {Tail(queue),
                   Tail(queue) \o Requeue(keys, Head(queue)[1],
                                          Head(queue)[2])}
    /\ pc' \in {"ac3_loop", "done"}

\* what every iteration of the candidate loop of backtrack does to the
\* call (511-542): it goes on to the next candidate or calls backtrack
LoopOfBacktrackRuns ==
    /\ pc = "bt_loop"
    /\ Top.i <= Len(Top.vals)
    /\ \/ pc' = "bt_loop" /\ stack' = SetTop([Top EXCEPT !.i = Top.i + 1])
       \/ pc' = "bt_call" /\ Len(stack') = Len(stack)

\* the interpreter keeps running the one thread of the call: the two loops
\* go on to their next iteration while their conditions hold, and the
\* other steps are taken when they can be
SpecSolve ==
    /\ InitSolve /\ [][NextSolve]_vars
    /\ WF_vars(Ac3Start \/ Ac3Done \/ BtCall \/ BtExhaust \/ BtReturn)
    /\ WF_<<pc, queue>>(LoopOfAc3Runs)
    /\ WF_<<pc, stack>>(LoopOfBacktrackRuns)

\* the groups left in all domains
TotalGroups == SumLen(domains, DOMAIN domains)

\* C40: a step of the loop of ac3 either ends the loop, or removes a group,
\* or leaves the domains and shortens the worklist, and the loop never
\* ends by its cap; the stack of backtrack is never deeper than the
\* number of variables and each call walks once through its candidates;
\* so ac3 returns, and backtrack, once called, returns None or an
\* assignment of every variable.
C40_SolverTerminates ==
    /\ [][pc = "ac3_loop" =>
            \/ pc' # "ac3_loop"
            \/ TotalGroups' < TotalGroups
            \/ TotalGroups' = TotalGroups /\ Len(queue') < Len(queue)]_vars
    /\ [](pc = "ac3_loop" => revisions < Len(keys) * Ac3RevisionFactor)
    /\ [](/\ Len(stack) <= Len(keys)
          /\ \A n \in 1..Len(stack) :
                stack[n].i \in 1..(Len(stack[n].vals) + 1))
    /\ [][(pc \in {"bt_loop", "bt_return"} /\ Len(stack') = Len(stack))
            => (stack'[Len(stack)].i >= stack[Len(stack)].i)]_vars
    /\ <>(pc \notin {"ac3_start", "ac3_loop"})
    /\ []((pc = "bt_call" /\ stack = <<>>) => <>BtReturned)
    /\ [](BtReturned => ret = None \/ DOMAIN ret[1] = DOMAIN domains)

\* backtrack has returned None after ac3 revised arcs and the search went
\* two calls deep and stored dead states
C40_Witness ==
    /\ BtReturned
    /\ ret = None
    /\ revisions >= 1
    /\ Cardinality(DOMAIN _backtrack_cache) >= 2

\* the worklist of ac3 is empty and groups were removed: ac3 returns True
\* with fewer groups than it was called with
C40_Ac3Removed ==
    /\ pc = "ac3_loop" /\ queue = <<>>
    /\ TotalGroups < SumLen(domains0, DOMAIN domains0)

\* backtrack has returned an assignment
C40_Found == BtReturned /\ ret # None /\ revisions >= 1

====
